---- MODULE Spec2Model ----
(***************************************************************************)
(* LiveClaw: the message-interception and voice-routing pipeline.          *)
(*                                                                         *)
(* Texts are sequences of one-character strings, so that the speech        *)
(* sanitizer and the pattern matcher are computed character by character   *)
(* the way the regular expressions of the source compute them.             *)
(***************************************************************************)
EXTENDS Integers, Sequences, FiniteSets, TLC

(***************************************************************************)
(* Bounds of the model.                                                    *)
(***************************************************************************)
\* Work items enqueued in one behaviour of Spec.
MaxEnq == 7
\* Work items enqueued in one behaviour of SpecIngest.
MaxIngest == 3
\* Free places of the Seen-ID Window in the initial state of SpecIngest.
WindowRoom == 2
\* Identifiers observed beyond the window's capacity in SpecIngest.
MaxOver == 2
\* Text messages the bot posts in one behaviour of SpecDelete.
MaxPosts == 2
\* Messages the bot posts in SpecFlow.
MaxFlowPosts == 1
\* Length of the longest single text handed to _send_voice in SpecCaption.
MaxCaptionLen == 1026
\* Voice messages downloaded for the player in SpecPlayer.
MaxPlay == 3
\* Streams the recorder opens in SpecRecorder.
MaxStreams == 3
\* The recording limit in blocks of the audio callback
\* (max_duration * sample_rate / block size).
LimitBlocks == 2
\* Messages ingested in SpecFair.
MaxFair == 2
\* Length of the texts handed to the sanitizer in SpecSanitize.
MaxTextLen == 4

(***************************************************************************)
(* Program constants.                                                      *)
(***************************************************************************)
\* interceptor.py: _QUEUE_FAST_THRESHOLD
QUEUE_FAST_THRESHOLD == 3
\* interceptor.py: _QUEUE_BATCH_THRESHOLD
QUEUE_BATCH_THRESHOLD == 6
\* interceptor.py: deque(maxlen=100)
SEEN_MAXLEN == 100
\* interceptor.py: text.strip()[:100]
KEY_LEN == 100
\* interceptor.py: for _ in range(20)
POLL_LIMIT == 20
CAPTION_LIMIT == 1024

(***************************************************************************)
(* Text helpers.                                                           *)
(***************************************************************************)
Range(s) == {s[i] : i \in 1..Len(s)}

Min2(a, b) == IF a < b THEN a ELSE b

\* Python's \s and str.strip() on the characters the model uses.
IsSpace(c) == c \in {" ", "\n", "\t"}

\* Characters i..Len(s) of s.
Suffix(s, i) == SubSeq(s, i, Len(s))

\* TRUE iff pat occurs in s at position i.
OccursAt(s, pat, i) ==
    /\ i >= 1
    /\ i + Len(pat) - 1 <= Len(s)
    /\ SubSeq(s, i, i + Len(pat) - 1) = pat

\* The first position >= from where pat occurs in s, or 0.
Find(s, pat, from) ==
    LET hits == {i \in from..Len(s) : OccursAt(s, pat, i)}
    IN  IF hits = {} THEN 0 ELSE CHOOSE i \in hits : \A j \in hits : i <= j

\* Length of the maximal run of characters of cs starting at position i.
RunIn(s, cs, i) ==
    LET stops == {j \in i..Len(s) : s[j] \notin cs}
    IN  IF i > Len(s) THEN 0
        ELSE IF stops = {} THEN Len(s) - i + 1
        ELSE (CHOOSE j \in stops : \A k \in stops : j <= k) - i

\* Length of the maximal run of characters outside cs starting at position i.
RunOut(s, cs, i) ==
    LET stops == {j \in i..Len(s) : s[j] \in cs}
    IN  IF i > Len(s) THEN 0
        ELSE IF stops = {} THEN Len(s) - i + 1
        ELSE (CHOOSE j \in stops : \A k \in stops : j <= k) - i

Spaces == {" ", "\n", "\t"}

\* str.strip()
LStrip(s) == Suffix(s, RunIn(s, Spaces, 1) + 1)

RECURSIVE RStrip(_)
RStrip(s) ==
    IF s = <<>> THEN s
    ELSE IF IsSpace(s[Len(s)]) THEN RStrip(SubSeq(s, 1, Len(s) - 1))
    ELSE s

Strip(s) == RStrip(LStrip(s))

\* " ".join(texts)
RECURSIVE JoinSpace(_)
JoinSpace(texts) ==
    IF texts = <<>> THEN <<>>
    ELSE IF Len(texts) = 1 THEN texts[1]
    ELSE texts[1] \o <<" ">> \o JoinSpace(Tail(texts))

\* TRUE iff pat occurs somewhere in s.
Contains(s, pat) == \E i \in 1..(Len(s) + 1) : OccursAt(s, pat, i)

(***************************************************************************)
(* MessageClassifier._clean_for_speech: seven substitutions in order, each *)
(* scanning left to right and replacing non-overlapping matches.           *)
(***************************************************************************)
\* The backtick, which a TLA+ string cannot hold.
BT == "BACKTICK"

Fence == <<BT, BT, BT>>

\* re.sub(r"BT BT BT [\s\S]*? BT BT BT", "", text): fenced code blocks
RECURSIVE StripFences(_)
StripFences(s) ==
    LET i == Find(s, Fence, 1)
        j == IF i = 0 THEN 0 ELSE Find(s, Fence, i + 3)
    IN  IF j = 0 THEN s
        ELSE SubSeq(s, 1, i - 1) \o StripFences(Suffix(s, j + 3))

\* re.sub(r"BT [^BT]+ BT", "", text): inline code
RECURSIVE StripInlineCode(_)
StripInlineCode(s) ==
    IF s = <<>> THEN s
    ELSE LET n == RunOut(s, {BT}, 2)
         IN  IF s[1] = BT /\ n >= 1 /\ n + 2 <= Len(s)
             THEN StripInlineCode(Suffix(s, n + 3))
             ELSE <<s[1]>> \o StripInlineCode(Tail(s))

\* re.sub(r"^#{1,6}\s+", "", text, flags=re.MULTILINE), scanning from position i.
RECURSIVE StripHeadersFrom(_, _)
StripHeadersFrom(s, i) ==
    IF i > Len(s) THEN <<>>
    ELSE LET h == RunIn(s, {"#"}, i)
             w == RunIn(s, Spaces, i + h)
         IN  IF (i = 1 \/ s[i - 1] = "\n") /\ h >= 1 /\ h <= 6 /\ w >= 1
             THEN StripHeadersFrom(s, i + h + w)
             ELSE <<s[i]>> \o StripHeadersFrom(s, i + 1)

StripHeaders(s) == StripHeadersFrom(s, 1)

Markers == {"*", "_"}

\* re.sub(r"[*_]{1,3}([^*_]+)[*_]{1,3}", r"\1", text)
RECURSIVE StripEmphasis(_)
StripEmphasis(s) ==
    IF s = <<>> THEN s
    ELSE LET open  == RunIn(s, Markers, 1)
             inner == RunOut(s, Markers, open + 1)
             close == Min2(3, RunIn(s, Markers, open + inner + 1))
         IN  IF open >= 1 /\ open <= 3 /\ inner >= 1 /\ close >= 1
             THEN SubSeq(s, open + 1, open + inner)
                      \o StripEmphasis(Suffix(s, open + inner + close + 1))
             ELSE <<s[1]>> \o StripEmphasis(Tail(s))

\* re.sub(r"\[([^\]]+)\]\([^)]+\)", r"\1", text)
RECURSIVE StripLinks(_)
StripLinks(s) ==
    IF s = <<>> THEN s
    ELSE LET label == RunOut(s, {"]"}, 2)
             paren == label + 3
             url   == RunOut(s, {")"}, paren + 1)
         IN  IF /\ s[1] = "["
                /\ label >= 1
                /\ OccursAt(s, <<"]", "(">>, label + 2)
                /\ url >= 1
                /\ paren + url + 1 <= Len(s)
             THEN SubSeq(s, 2, label + 1) \o StripLinks(Suffix(s, paren + url + 2))
             ELSE <<s[1]>> \o StripLinks(Tail(s))

Https == <<"h", "t", "t", "p", "s", ":", "/", "/">>
Http == <<"h", "t", "t", "p", ":", "/", "/">>

\* re.sub(r"https?://\S+", "", text)
RECURSIVE StripUrls(_)
StripUrls(s) ==
    IF s = <<>> THEN s
    ELSE LET scheme == IF OccursAt(s, Https, 1) THEN Len(Https)
                       ELSE IF OccursAt(s, Http, 1) THEN Len(Http)
                       ELSE 0
             rest   == RunOut(s, Spaces, scheme + 1)
         IN  IF scheme > 0 /\ rest >= 1
             THEN StripUrls(Suffix(s, scheme + rest + 1))
             ELSE <<s[1]>> \o StripUrls(Tail(s))

\* re.sub(r"\s+", " ", text)
RECURSIVE CollapseSpaces(_)
CollapseSpaces(s) ==
    IF s = <<>> THEN s
    ELSE IF IsSpace(s[1])
         THEN <<" ">> \o CollapseSpaces(Suffix(s, RunIn(s, Spaces, 1) + 1))
         ELSE <<s[1]>> \o CollapseSpaces(Tail(s))

CleanForSpeech(text) ==
    Strip(CollapseSpaces(StripUrls(StripLinks(StripEmphasis(
        StripHeaders(StripInlineCode(StripFences(text))))))))

(***************************************************************************)
(* patterns.py: the intents in declaration order.  A rule is anchored (^)  *)
(* or not and lists literal alternatives; the rules kept here are the      *)
(* literal alternatives of one English pattern per intent, the others      *)
(* cannot match a text over the characters the model uses.                 *)
(***************************************************************************)
W_on_it == <<"o", "n", " ", "i", "t">>
W_checking == <<"c", "h", "e", "c", "k", "i", "n", "g">>
W_hmm == <<"h", "m", "m">>
W_done == <<"d", "o", "n", "e">>
W_error == <<"e", "r", "r", "o", "r">>
W_halfway == <<"h", "a", "l", "f", "w", "a", "y">>

PATTERNS == <<
    [key |-> "ack_started",   anchored |-> TRUE,  alts |-> {W_on_it}],
    [key |-> "ack_searching", anchored |-> FALSE, alts |-> {W_checking}],
    [key |-> "ack_thinking",  anchored |-> TRUE,  alts |-> {W_hmm}],
    [key |-> "ack_done",      anchored |-> TRUE,  alts |-> {W_done}],
    [key |-> "ack_error",     anchored |-> FALSE, alts |-> {W_error}],
    [key |-> "ack_progress",  anchored |-> FALSE, alts |-> {W_halfway}] >>

\* The result of match() when no pattern matches.
NoKey == "none"

UpperCase == <<"A", "B", "C", "D", "E", "F", "G", "H", "I", "J", "K", "L", "M",
               "N", "O", "P", "Q", "R", "S", "T", "U", "V", "W", "X", "Y", "Z">>
LowerCase == <<"a", "b", "c", "d", "e", "f", "g", "h", "i", "j", "k", "l", "m",
               "n", "o", "p", "q", "r", "s", "t", "u", "v", "w", "x", "y", "z">>

\* re.IGNORECASE: compare on lower case.
LowerChar(c) ==
    IF \E i \in 1..26 : UpperCase[i] = c
    THEN LowerCase[CHOOSE i \in 1..26 : UpperCase[i] = c]
    ELSE c

Lower(s) == [i \in 1..Len(s) |-> LowerChar(s[i])]

\* pattern.search(text) for one rule.
RuleSearch(rule, text) ==
    LET low == Lower(text)
    IN  \E lit \in rule.alts :
            IF rule.anchored THEN OccursAt(low, lit, 1) ELSE Contains(low, lit)

\* The key of the last intent with a matching rule.
MatchInLast(rules, text) ==
    LET t    == Strip(text)
        hits == {i \in 1..Len(rules) : RuleSearch(rules[i], t)}
    IN  IF t = <<>> \/ hits = {} THEN NoKey
        ELSE rules[CHOOSE i \in hits : \A j \in hits : i >= j].key

\* The loop of patterns.match over the compiled rules: first intent in
\* declaration order with a matching rule.
MatchIn(rules, text) ==
    LET t    == Strip(text)
        hits == {i \in 1..Len(rules) : RuleSearch(rules[i], t)}
    IN  IF t = <<>> \/ hits = {} THEN NoKey
        ELSE rules[CHOOSE i \in hits : \A j \in hits : i <= j].key

\* patterns.match with the rules compiled from PATTERNS.
Match(text) == MatchIn(PATTERNS, text)

(***************************************************************************)
(* Classification results (classifier.py).                                 *)
(***************************************************************************)
RESULT_LIBRARY == "library"
RESULT_TTS == "tts"

Library(key) == [action |-> RESULT_LIBRARY, key |-> key, text |-> <<>>]
Speech(text) == [action |-> RESULT_TTS, key |-> NoKey, text |-> text]
\* No result yet (a round that has not classified).
NoResult == [action |-> "none", key |-> NoKey, text |-> <<>>]

(***************************************************************************)
(* The texts and outcomes the behaviours draw from.                        *)
(***************************************************************************)
\* "done": a pattern hit.  "a*b": no pattern, one emphasis marker.
\* BT "a" BT: inline code only, sanitized to the empty text.
\* T_long(c): "done", 96 times "x" and c: 101 characters, a pattern hit.
T_done == W_done
T_long(c) == W_done \o [i \in 1..96 |-> "x"] \o <<c>>
T_star == <<"a", "*", "b">>
T_code == <<BT, "a", BT>>

PipelineTexts == {T_done, T_star}

\* Texts for the batch tier: one that the sanitizer changes only when it is
\* joined with a second one, and one that it empties.
BatchTexts == {T_star, T_code}

\* Message texts as delivered by the platform: absent (the empty sequence),
\* whitespace only, and texts with surrounding whitespace.
RawTexts == {<<>>, <<" ">>, T_done, <<" ">> \o T_done \o <<"\n">>, T_code}

\* The keys of the manifest (tests/test_pipeline.py: _make_test_library), and
\* the ones whose clip has been generated: the clip of ack_started is missing.
ManifestKeys == {"ack_started", "ack_done"}
ClipsOnDisk == {"ack_done"}

\* A key of the remote answer that is no string but a JSON list: the lookup
\* in the manifest raises TypeError (unhashable).
BadKey == "unhashable"

\* What the remote classification call can come back with: nothing (timeout,
\* exception, unparsable), a library key, or speech text.
LlmOutcomes(text) ==
    {NoResult, Library("ack_done"), Library("ack_started"), Library("ack_error"),
     Library(BadKey), Speech(CleanForSpeech(text)), Speech(<<>>)}

\* What TTSEngine.generate can end with for a non-blank text.
TtsOutcomes == {"path", "none", "raise"}

(***************************************************************************)
(* State of one MessageInterceptor.                                        *)
(***************************************************************************)
VARIABLES
    seen_ids,     \* _seen_ids: the identifiers in the window, oldest first
    queue,        \* _queue: work items, head first; n is the enqueue serial
    worker,       \* _worker_task: "none", "running" or "cancelled"
    cur,          \* the worker's position and the round it is in (or ended last)
    lib_files,    \* the manifest keys whose clip exists on disk
    llm_model,    \* TRUE iff a remote classifier model is configured
    hist,         \* per enqueue serial: how many times the worker took the item
    del_started,  \* deletion tasks created by _on_bot_message
    obs,          \* the last message handed to _on_bot_message and its fate
    msgs,         \* the text messages the bot posted, in posting order
    bot_msg_ids,  \* _bot_msg_ids: fingerprint -> bot-side message id
    del_tasks,    \* the _delete_message tasks, in creation order
    call,         \* the last call of a function of the classifier side
    patterns,     \* patterns.PATTERNS: the intents and their rules, in order
    compiled,     \* patterns._compiled: the compiled rules, <<>> before the first match
    manifest,     \* AudioLibrary._manifest: the keys of the loaded manifest
    manifest_file, \* the manifest file on disk: "valid", "invalid" or "missing"
    gen,          \* one run of AudioLibrary.generate_library: position and counters
    tts,          \* one call of TTSEngine.generate: position, temporary files, answer
    rec,          \* the VoiceRecorder: its fields, the open streams, the audio handed on
    ply           \* the VoicePlayer: its queue, its worker, the player processes, stop()

\* The deletion side: the worker reads and writes none of these.
del_vars == <<msgs, bot_msg_ids, del_tasks>>

\* The components beside the interceptor, its classifier and its library:
\* neither the handlers of the interceptor nor the direct calls write these.
aux_vars == <<gen, tts, rec, ply>>

\* The pattern engine, the audio library object and the record of direct
\* calls: the interceptor's handlers write none of these.
fn_vars == <<call, patterns, compiled, manifest, manifest_file, aux_vars>>

vars == <<seen_ids, queue, worker, cur, lib_files, llm_model, hist, del_started, obs,
          msgs, bot_msg_ids, del_tasks, call, patterns, compiled, manifest, manifest_file,
          gen, tts, rec, ply>>

\* generate_library not called.
NoGen ==
    [pc |-> "idle", todo |-> <<>>, key |-> "none", generated |-> 0, skipped |-> 0,
     failed |-> 0, visits |-> <<>>, tts_calls |-> <<>>, entries |-> {}, existed |-> {}]

\* TTSEngine.generate not called.  files are the temporary files on disk
\* ("raw" the provider's, "ogg" the transcoder's), ret is what generate
\* answered: "none", the file "raw" or "ogg", or "raise" for an exception.
NoTts ==
    [pc |-> "idle", text |-> [kind |-> "null", chars |-> <<>>], provider |-> "none",
     provider_calls |-> 0, provider_out |-> "none", exec_out |-> "none",
     files |-> {}, ret |-> "pending"]

\* A new VoiceRecorder.  A stream is known by its number (0: None); a block
\* of audio by the number of the stream that captured it.  made counts the
\* streams created, open are the streams started and not stopped, pending
\* the _max_duration_stop callbacks the loop has still to run, stops those
\* it has run, sent the audio handed to _process_and_send, limits what the
\* audio callback held each time it hit the limit.
NoRec ==
    [recording |-> FALSE, frames |-> <<>>, frame_count |-> 0, stream |-> 0,
     made |-> 0, open |-> {}, pending |-> 0, stops |-> 0, sent |-> <<>>, limits |-> <<>>]

\* A new VoicePlayer.  Files are numbered in the order of their download,
\* player processes in the order of their start (0: no process).  pc is
\* where the worker is suspended: "get" in queue.get(), "exec" in
\* create_subprocess_exec, "wait" in proc.wait().  stop_pc is where stop()
\* is: "none" (not called), "wait_proc" (awaiting the terminated process),
\* "done" (returned).
NoPly ==
    [queue |-> <<>>, worker |-> "none", pc |-> "get", path |-> 0, current_proc |-> 0,
     downloaded |-> 0, files |-> {}, started |-> 0, alive |-> {}, played |-> <<>>,
     taken |-> <<>>, stop_pc |-> "none", stop_proc |-> 0]

\* The components beside the interceptor before their first call.
AuxInit == gen = NoGen /\ tts = NoTts /\ rec = NoRec /\ ply = NoPly

\* No direct call made yet.
NoCall == [fn |-> "none"]

\* The pattern engine as imported and the library as main loads it.
FnInit ==
    /\ call = NoCall
    /\ patterns = PATTERNS
    /\ compiled = <<>>
    /\ manifest = ManifestKeys
    /\ manifest_file = "valid"
    /\ AuxInit

\* The worker before its first dequeue.  pc is the suspension point; the
\* other fields describe the round: what was taken, what was called and how
\* often, what was sent and what was logged.
NoRound ==
    [pc |-> "get", tier |-> "none", depth |-> 0, items |-> <<>>, texts |-> <<>>,
     original |-> <<>>, result |-> NoResult, llm_calls |-> 0, tts_calls |-> 0,
     tts_arg |-> <<>>, provider_calls |-> 0, audio |-> "none", is_temp |-> FALSE,
     bot_sends |-> 0, user_sends |-> 0, send_errors |-> 0, voices |-> 0,
     fail_logs |-> 0, tmp_live |-> FALSE, unlinked |-> "none",
     outcome |-> "none", log |-> "none", task_done |-> 0]

NoObs == [id |-> 0, text |-> <<>>, fate |-> "none"]

\* self._queue.qsize()
QSize(q) == Len(q)

\* A window that never evicts.
SeenAppendUnbounded(seen, id) == Append(seen, id)

\* deque(maxlen=100).append
SeenAppend(seen, id) ==
    IF Len(seen) >= SEEN_MAXLEN THEN Append(Tail(seen), id) ELSE Append(seen, id)

\* Every message counts as a text message.
HasTextAlways(text) == TRUE

\* message.text is neither None (voice, media) nor empty.
HasText(text) == text # <<>>

\* Only the newest identifier is compared.
IsSeenNewestOnly(seen, id) == seen # <<>> /\ seen[Len(seen)] = id

\* message.id in self._seen_ids
IsSeen(seen, id) == id \in Range(seen)

\* A queue that drops an item whose text is already queued.
EnqueueUniqueText(q, item) ==
    IF \E i \in 1..Len(q) : q[i].text = item.text THEN q ELSE Append(q, item)

\* await self._queue.put(item)
Enqueue(q, item) == Append(q, item)

(***************************************************************************)
(* start(): create the worker task and register the handlers.              *)
(***************************************************************************)
Start ==
    /\ worker = "none"
    /\ worker' = "running"
    /\ UNCHANGED <<fn_vars, seen_ids, queue, cur, lib_files, llm_model, hist, del_started, obs, del_vars>>

(***************************************************************************)
(* _on_bot_message, called by the userbot handler for message (id, text).  *)
(* An absent text is the empty sequence.  The deletion task it creates is  *)
(* counted here; Intercept adds the task itself.                           *)
(***************************************************************************)
OnBotMessage(id, text) ==
    /\ worker # "none"
    /\ IF ~HasText(text)
       THEN /\ obs' = [id |-> id, text |-> text, fate |-> "no_text"]
            /\ UNCHANGED <<seen_ids, queue, hist, del_started>>
       ELSE IF IsSeen(seen_ids, id)
       THEN /\ obs' = [id |-> id, text |-> text, fate |-> "duplicate"]
            /\ UNCHANGED <<seen_ids, queue, hist, del_started>>
       ELSE IF Strip(text) = <<>>
       THEN /\ seen_ids' = SeenAppend(seen_ids, id)
            /\ obs' = [id |-> id, text |-> text, fate |-> "blank"]
            /\ UNCHANGED <<queue, hist, del_started>>
       ELSE /\ seen_ids' = SeenAppend(seen_ids, id)
            /\ del_started' = del_started + 1
            /\ queue' = Enqueue(queue, [text |-> Strip(text), n |-> Len(hist) + 1])
            /\ hist' = Append(hist, 0)
            /\ obs' = [id |-> id, text |-> text, fate |-> "queued"]
    /\ UNCHANGED <<fn_vars, worker, cur, lib_files, llm_model>>

(***************************************************************************)
(* The worker: one round per dequeue.                                      *)
(***************************************************************************)
\* The manifest entry suffices, the file is not looked for.
LibraryHasManifestOnly(files, key) == key \in ManifestKeys

\* AudioLibrary.get(key) returns a path.
LibraryHas(files, key) == key \in ManifestKeys /\ key \in files

\* Every audio path is unlinked, the clips of the library included.
CleanupAlways(r) ==
    IF r.audio # "none" THEN [r EXCEPT !.tmp_live = FALSE, !.unlinked = r.audio] ELSE r

\* _handle_result, finally: os.unlink(audio_path) if is_temp and audio_path.
Cleanup(r) ==
    IF r.is_temp /\ r.audio # "none"
    THEN [r EXCEPT !.tmp_live = FALSE, !.unlinked = r.audio]
    ELSE r

\* The files of the library after the round's cleanup.
FilesAfter(files, r) == IF r.unlinked = "lib" THEN files \ {r.result.key} ELSE files

\* task_done() is never called.
TaskDoneNever(r, k) == r

\* self._queue.task_done(), k times; the field counts the calls made since
\* the worker started.
TaskDone(r, k) == [r EXCEPT !.task_done = @ + k]

\* The round ends: the cleanup of _handle_result, task_done() and back to
\* queue.get().
Finish(r) == TaskDone([Cleanup(r) EXCEPT !.pc = "get", !.outcome = "done"], 1)

\* _send_voice: a send_voice call returned; logger.info("Voice sent ...")
VoiceSent(r, via) == Finish([r EXCEPT !.voices = @ + 1, !.log = via])

\* The failure leaves the worker loop: the worker task is dead.
LogFailureFatal(r, log) ==
    [Cleanup(r) EXCEPT !.pc = "dead", !.outcome = "done", !.fail_logs = @ + 1, !.log = log]

\* The round's terminal failure is logged: "No audio for", "Userbot fallback
\* also failed", "Worker error".
LogFailure(r, log) == Finish([r EXCEPT !.fail_logs = @ + 1, !.log = log])

\* The round ends without audio and without a log entry.
NoAudioSilent(r) == Finish(r)

\* _handle_result: logger.warning("No audio for ...")
NoAudio(r) == LogFailure(r, "no_audio")

\* The engine calls the provider a second time.
TtsGenerateRetry(r, text) ==
    LET called == [r EXCEPT !.tts_calls = @ + 1, !.tts_arg = text]
    IN  IF Strip(text) = <<>> THEN NoAudio([called EXCEPT !.is_temp = TRUE])
        ELSE [called EXCEPT !.pc = "tts", !.provider_calls = @ + 2]

\* await self._tts.generate(text): TTSEngine.generate returns None for a blank
\* text without calling the provider, otherwise awaits the provider.  is_temp
\* is set once generate has returned.
TtsGenerate(r, text) ==
    LET called == [r EXCEPT !.tts_calls = @ + 1, !.tts_arg = text]
    IN  IF Strip(text) = <<>> THEN NoAudio([called EXCEPT !.is_temp = TRUE])
        ELSE [called EXCEPT !.pc = "tts", !.provider_calls = @ + 1]

\* The voice goes to the alternate transport at once.
SendVoiceAlternateFirst(r, audio) ==
    [r EXCEPT !.audio = audio, !.pc = "send_user", !.user_sends = @ + 1]

\* _send_voice starts: await self._bot.send_voice(...)
SendVoice(r, audio) == [r EXCEPT !.audio = audio, !.pc = "send_bot", !.bot_sends = @ + 1]

\* The library is never consulted: every result is synthesized.
HandleResultAlwaysSynth(r, files) ==
    IF r.result.action = RESULT_LIBRARY THEN TtsGenerate(r, CleanForSpeech(r.original))
    ELSE IF r.result.text # <<>> THEN TtsGenerate(r, r.result.text)
    ELSE NoAudio(r)

\* _handle_result up to its first suspension.
HandleResult(r, files) ==
    IF r.result.action = RESULT_LIBRARY
    THEN IF r.result.key = BadKey
         THEN LogFailure(r, "worker_error")
         ELSE IF LibraryHas(files, r.result.key)
         THEN SendVoice(r, "lib")
         ELSE TtsGenerate(r, CleanForSpeech(r.original))
    ELSE IF r.result.action = RESULT_TTS
    THEN IF r.result.text # <<>> THEN TtsGenerate(r, r.result.text) ELSE NoAudio(r)
    ELSE NoAudio(r)

\* The thresholds compared with > instead of >=.
TierOfStrict(qsize) ==
    IF qsize > QUEUE_BATCH_THRESHOLD THEN "batch"
    ELSE IF qsize > QUEUE_FAST_THRESHOLD THEN "fast"
    ELSE "normal"

\* The depth counted with the dequeued item.
TierOfDepthBeforeGet(qsize) ==
    IF qsize + 1 >= QUEUE_BATCH_THRESHOLD THEN "batch"
    ELSE IF qsize + 1 >= QUEUE_FAST_THRESHOLD THEN "fast"
    ELSE "normal"

\* The tier for the queue depth left after the dequeue.
TierOf(qsize) ==
    IF qsize >= QUEUE_BATCH_THRESHOLD THEN "batch"
    ELSE IF qsize >= QUEUE_FAST_THRESHOLD THEN "fast"
    ELSE "normal"

\* _process_normal up to its first suspension: classify() answers at once for
\* a blank text, a pattern hit or no configured model, else awaits the remote call.
ProcessNormal(r, files, model) ==
    IF Strip(r.original) = <<>>
    THEN HandleResult([r EXCEPT !.result = Speech(<<>>)], files)
    ELSE IF Match(r.original) # NoKey
    THEN HandleResult([r EXCEPT !.result = Library(Match(r.original))], files)
    ELSE IF model
    THEN [r EXCEPT !.pc = "llm", !.llm_calls = @ + 1]
    ELSE HandleResult([r EXCEPT !.result = Speech(CleanForSpeech(r.original))], files)

\* The fast tier going through classify() with a configured model.
ProcessFastViaClassifier(r, files) == ProcessNormal(r, files, TRUE)

\* _process_fast
ProcessFast(r, files) ==
    IF Match(r.original) # NoKey
    THEN HandleResult([r EXCEPT !.result = Library(Match(r.original))], files)
    ELSE HandleResult([r EXCEPT !.result = Speech(CleanForSpeech(r.original))], files)

\* The drain loop stops one item early and discards it.
BatchItemsDropLast(first, rest) ==
    IF rest = <<>> THEN <<first>> ELSE <<first>> \o SubSeq(rest, 1, Len(rest) - 1)

\* The items _process_batch takes: the dequeued one and all that are queued.
BatchItems(first, rest) == <<first>> \o rest

\* Each text sanitized on its own.
CleanEach(texts) == [i \in 1..Len(texts) |-> CleanForSpeech(texts[i])]

\* The batch sanitizes each text first and joins the sanitized texts.
ProcessBatchCleanEach(r, files) ==
    LET combined == JoinSpace(r.texts)
    IN  HandleResult([r EXCEPT !.original = combined,
                               !.result = Speech(JoinSpace(CleanEach(r.texts)))], files)

\* _process_batch
ProcessBatch(r, files) ==
    LET combined == JoinSpace(r.texts)
    IN  HandleResult([r EXCEPT !.original = combined,
                               !.result = Speech(CleanForSpeech(combined))], files)

\* The ledger after a round took its items.
Take(h, items) == [n \in 1..Len(h) |-> IF n \in Range(items) THEN h[n] + 1 ELSE h[n]]

SerialsOf(q) == [i \in 1..Len(q) |-> q[i].n]
TextsOf(q) == [i \in 1..Len(q) |-> q[i].text]

\* A worker that takes the next item at any suspension point of its round.
AtGetAnyPoint(r) == TRUE

\* The single worker task is suspended in queue.get(): the round before, if
\* any, has returned into the loop.
AtGet(r) == r.pc = "get"

\* _worker: queue.get(), qsize(), the tier's processing up to its first suspension.
WorkerDequeue ==
    /\ worker = "running"
    /\ AtGet(cur)
    /\ queue # <<>>
    /\ LET first == Head(queue)
           rest  == Tail(queue)
           tier  == TierOf(QSize(rest))
           taken == IF tier = "batch" THEN BatchItems(first, rest) ELSE <<first>>
           r0    == TaskDone([NoRound EXCEPT !.pc = "run", !.tier = tier,
                                             !.depth = QSize(rest),
                                             !.items = SerialsOf(taken),
                                             !.texts = TextsOf(taken),
                                             !.original = first.text,
                                             !.task_done = cur.task_done],
                             Len(taken) - 1)
           r1    == IF tier = "batch" THEN ProcessBatch(r0, lib_files)
                    ELSE IF tier = "fast" THEN ProcessFast(r0, lib_files)
                    ELSE ProcessNormal(r0, lib_files, llm_model)
       IN  /\ queue' = IF tier = "batch" THEN <<>> ELSE rest
           /\ cur' = r1
           /\ hist' = Take(hist, SerialsOf(taken))
           /\ lib_files' = FilesAfter(lib_files, r1)
    /\ UNCHANGED <<fn_vars, seen_ids, worker, llm_model, del_started, obs, del_vars>>

\* The remote classification call returns (classify steps 3 to 5).
LlmReturn(res) ==
    /\ worker = "running"
    /\ cur.pc = "llm"
    /\ LET result == IF res = NoResult THEN Speech(CleanForSpeech(cur.original)) ELSE res
       IN  cur' = HandleResult([cur EXCEPT !.result = result], lib_files)
    /\ lib_files' = FilesAfter(lib_files, cur')
    /\ UNCHANGED <<fn_vars, seen_ids, queue, worker, llm_model, hist, del_started, obs, del_vars>>

\* self._tts.generate returns a path or None, or raises into _worker.
TtsReturn(out) ==
    /\ worker = "running"
    /\ cur.pc = "tts"
    /\ cur' = IF out = "path"
              THEN SendVoice([cur EXCEPT !.is_temp = TRUE, !.tmp_live = TRUE], "tmp")
              ELSE IF out = "none" THEN NoAudio([cur EXCEPT !.is_temp = TRUE])
              ELSE LogFailure(cur, "worker_error")
    /\ lib_files' = FilesAfter(lib_files, cur')
    /\ UNCHANGED <<fn_vars, seen_ids, queue, worker, llm_model, hist, del_started, obs, del_vars>>

\* _send_voice: self._bot.send_voice returns, or raises, the error is logged
\* ("Bot send_voice failed") and the fallback starts.
BotSendReturn(ok) ==
    /\ worker = "running"
    /\ cur.pc = "send_bot"
    /\ cur' = IF ok THEN VoiceSent(cur, "sent_bot")
              ELSE [cur EXCEPT !.pc = "send_user", !.send_errors = @ + 1,
                               !.user_sends = @ + 1]
    /\ lib_files' = FilesAfter(lib_files, cur')
    /\ UNCHANGED <<fn_vars, seen_ids, queue, worker, llm_model, hist, del_started, obs, del_vars>>

\* _send_voice: the fallback self._client.send_voice returns or raises.
UserSendReturn(ok) ==
    /\ worker = "running"
    /\ cur.pc = "send_user"
    /\ cur' = IF ok THEN VoiceSent(cur, "sent_user") ELSE LogFailure(cur, "send_failed")
    /\ lib_files' = FilesAfter(lib_files, cur')
    /\ UNCHANGED <<fn_vars, seen_ids, queue, worker, llm_model, hist, del_started, obs, del_vars>>

(***************************************************************************)
(* stop(): cancel the worker at the suspension point it is in.             *)
(***************************************************************************)
\* The cancelled round stays where it is, to be resumed.
AbandonKeepInFlight(r) == r

\* CancelledError leaves the round: nothing is sent, nothing is logged; the
\* finally blocks of _handle_result and of _worker (task_done) still run.
Abandon(r) ==
    IF r.pc = "get" THEN r
    ELSE TaskDone([Cleanup(r) EXCEPT !.pc = "get", !.outcome = "abandoned"], 1)

Stop ==
    /\ worker = "running"
    /\ worker' = "cancelled"
    /\ cur' = Abandon(cur)
    /\ lib_files' = FilesAfter(lib_files, cur')
    /\ UNCHANGED <<fn_vars, seen_ids, queue, llm_model, hist, del_started, obs, del_vars>>

(***************************************************************************)
(* The deletion side: the bot client's listener on_bot_outgoing and the    *)
(* _delete_message tasks.  A message of the bot reaches the userbot        *)
(* (Intercept) and the bot client (OnBotOutgoing) as two independent       *)
(* events; each client receives its events in posting order.  The bot-side *)
(* message id of the i-th message is i.                                    *)
(***************************************************************************)
\* text.strip()[:100]
Fingerprint(text) == SubSeq(Strip(text), 1, Min2(KEY_LEN, Len(Strip(text))))

\* The map as a set of entries, at most one per key.
MapHas(map, key) == \E e \in map : e.key = key

MapGet(map, key) == (CHOOSE e \in map : e.key = key).mid

\* The entry is read and left in the map.
MapPopKeep(map, key) == map

\* self._bot_msg_ids.pop(text_key)
MapPop(map, key) == {e \in map : e.key # key}

\* self._bot_msg_ids[text_key] = (chat id, message id)
MapPut(map, key, mid) == {e \in map : e.key # key} \cup {[key |-> key, mid |-> mid]}

\* asyncio.create_task(self._delete_message(text)) for message msg.  polls
\* counts the membership tests that found nothing; claimed is the message
\* id taken from the map (0: none); stale tells that the routine of the
\* message the claimed entry belongs to had given up waiting before.
NewTask(msg, text) ==
    [msg |-> msg, key |-> Fingerprint(text), pc |-> "poll", polls |-> 0,
     claimed |-> 0, stale |-> FALSE, bot_deletes |-> 0, scans |-> 0, log |-> "none"]

\* The first message of the stream that has not got the flag yet, or 0.
FirstWithout(flag) ==
    LET open == {i \in 1..Len(msgs) : ~msgs[i][flag]}
    IN  IF open = {} THEN 0 ELSE CHOOSE i \in open : \A j \in open : i <= j

\* The bot posts a text message.
BotPosts(text) ==
    /\ Len(msgs) < MaxPosts
    /\ msgs' = Append(msgs, [text |-> text, intercepted |-> FALSE, tracked |-> FALSE])
    /\ UNCHANGED <<fn_vars, seen_ids, queue, worker, cur, lib_files, llm_model, hist, del_started,
                   obs, bot_msg_ids, del_tasks>>

\* _on_bot_message queues the item and creates no deletion task.
InterceptNoTask ==
    LET i == FirstWithout("intercepted")
    IN  /\ i # 0
        /\ OnBotMessage(i, msgs[i].text)
        /\ msgs' = [msgs EXCEPT ![i].intercepted = TRUE]
        /\ UNCHANGED <<bot_msg_ids, del_tasks>>

\* on_userbot_intercept: _on_bot_message with the deletion task it creates.
Intercept ==
    LET i == FirstWithout("intercepted")
    IN  /\ i # 0
        /\ OnBotMessage(i, msgs[i].text)
        /\ msgs' = [msgs EXCEPT ![i].intercepted = TRUE]
        /\ del_tasks' = IF del_started' # del_started
                        THEN Append(del_tasks, NewTask(i, Strip(msgs[i].text)))
                        ELSE del_tasks
        /\ UNCHANGED bot_msg_ids

\* on_bot_outgoing: the bot client sees its own message.
OnBotOutgoing ==
    LET i == FirstWithout("tracked")
    IN  /\ worker # "none"
        /\ i # 0
        /\ msgs' = [msgs EXCEPT ![i].tracked = TRUE]
        /\ bot_msg_ids' = IF msgs[i].text = <<>> THEN bot_msg_ids
                          ELSE MapPut(bot_msg_ids, Fingerprint(msgs[i].text), i)
        /\ UNCHANGED <<fn_vars, seen_ids, queue, worker, cur, lib_files, llm_model, hist,
                       del_started, obs, del_tasks>>

\* The routine of message mid has waited its 20 polls in vain.
GaveUp(tasks, mid) == \E k \in 1..Len(tasks) : tasks[k].msg = mid /\ tasks[k].scans = 1

\* The entry is found: pop it and await self._bot.delete_messages.
Claim(t, map, tasks) ==
    [t EXCEPT !.pc = "bot_delete", !.claimed = MapGet(map, t.key),
              !.stale = GaveUp(tasks, MapGet(map, t.key)), !.bot_deletes = @ + 1]

\* The routine gives up at the first poll that finds nothing.
MissGiveUpAtOnce(t) == [t EXCEPT !.polls = @ + 1, !.pc = "scan", !.scans = @ + 1]

\* The entry is not there: sleep; after the last sleep log "Bot msg ID not
\* found" and await the history scan.
Miss(t) ==
    IF t.polls + 1 < POLL_LIMIT THEN [t EXCEPT !.polls = @ + 1]
    ELSE [t EXCEPT !.polls = @ + 1, !.pc = "scan", !.scans = @ + 1]

\* _delete_message: one turn of the poll loop of task j.
Poll(j) ==
    /\ del_tasks[j].pc = "poll"
    /\ IF MapHas(bot_msg_ids, del_tasks[j].key)
       THEN /\ del_tasks' = [del_tasks EXCEPT ![j] = Claim(@, bot_msg_ids, del_tasks)]
            /\ bot_msg_ids' = MapPop(bot_msg_ids, del_tasks[j].key)
       ELSE /\ del_tasks' = [del_tasks EXCEPT ![j] = Miss(@)]
            /\ UNCHANGED bot_msg_ids
    /\ UNCHANGED <<fn_vars, seen_ids, queue, worker, cur, lib_files, llm_model, hist, del_started,
                   obs, msgs>>

\* After a failed delete by mapped id the routine goes on to the history scan.
BotDeleteFailedThenScan(t) == [t EXCEPT !.pc = "scan", !.scans = @ + 1]

\* logger.warning("Bot delete failed ..."); return
BotDeleteFailed(t) == [t EXCEPT !.pc = "done", !.log = "bot_delete_failed"]

\* self._bot.delete_messages returns or raises.
BotDeleteReturn(j, ok) ==
    /\ del_tasks[j].pc = "bot_delete"
    /\ del_tasks' = [del_tasks EXCEPT ![j] =
                        IF ok THEN [@ EXCEPT !.pc = "done", !.log = "deleted_bot"]
                        ELSE BotDeleteFailed(@)]
    /\ UNCHANGED <<fn_vars, seen_ids, queue, worker, cur, lib_files, llm_model, hist, del_started,
                   obs, msgs, bot_msg_ids>>

\* What the history scan can end with: the message found and deleted, no
\* matching message among the last five, or an exception of
\* get_chat_history or delete_messages.
ScanOutcomes == {"deleted", "not_found", "raise"}

\* The history scan of task j ends.
ScanReturn(j, out) ==
    /\ del_tasks[j].pc = "scan"
    /\ del_tasks' = [del_tasks EXCEPT ![j] =
                        [@ EXCEPT !.pc = "done",
                                  !.log = IF out = "deleted" THEN "deleted_user"
                                          ELSE IF out = "raise" THEN "scan_failed"
                                          ELSE "not_found"]]
    /\ UNCHANGED <<fn_vars, seen_ids, queue, worker, cur, lib_files, llm_model, hist, del_started,
                   obs, msgs, bot_msg_ids>>

(***************************************************************************)
(* Specifications.                                                         *)
(***************************************************************************)
\* Message identifiers grow; the next unseen one.
MaxOf(s) == IF s = <<>> THEN 0 ELSE CHOOSE m \in Range(s) : \A x \in Range(s) : x <= m

FreshId == MaxOf(seen_ids) + 1

CanEnqueue == Len(hist) < MaxEnq

\* Spec: the interceptor from construction on, every message with a new
\* identifier and a text.
Init ==
    /\ seen_ids = <<>>
    /\ queue = <<>>
    /\ worker = "none"
    /\ cur = NoRound
    /\ lib_files = ClipsOnDisk
    /\ llm_model \in BOOLEAN
    /\ hist = <<>>
    /\ del_started = 0
    /\ obs = NoObs
    /\ msgs = <<>>
    /\ bot_msg_ids = {}
    /\ del_tasks = <<>>
    /\ FnInit

Next ==
    \/ Start
    \/ \E text \in PipelineTexts : CanEnqueue /\ OnBotMessage(FreshId, text) /\ UNCHANGED del_vars
    \/ WorkerDequeue
    \/ \E res \in LlmOutcomes(cur.original) : LlmReturn(res)
    \/ \E out \in TtsOutcomes : TtsReturn(out)
    \/ \E ok \in BOOLEAN : BotSendReturn(ok)
    \/ \E ok \in BOOLEAN : UserSendReturn(ok)
    \/ Stop

Spec == Init /\ [][Next]_vars

\* SpecFair: the interceptor with the steps the code itself guarantees.
\* The worker task is scheduled whenever it can run, and the remote
\* classification call is awaited under asyncio.wait_for, so it ends after
\* the timeout at the latest.  TTSEngine.generate bounds the provider call
\* only: the transcoding subprocess is awaited with proc.wait(), and both
\* send_voice calls are awaited bare, so these end only if the service
\* answers.
NextFair ==
    \/ Start
    \/ \E text \in PipelineTexts : Len(hist) < MaxFair /\ OnBotMessage(FreshId, text)
                                                       /\ UNCHANGED del_vars
    \/ WorkerDequeue
    \/ \E res \in LlmOutcomes(cur.original) : LlmReturn(res)
    \/ \E out \in TtsOutcomes : TtsReturn(out)
    \/ \E ok \in BOOLEAN : BotSendReturn(ok)
    \/ \E ok \in BOOLEAN : UserSendReturn(ok)
    \/ Stop

\* The worker task is scheduled: weak fairness of WorkerDequeue, written
\* through its enabling condition (a dequeue ends the condition, so the
\* condition does not hold for ever).
DequeueFair == []<>~(worker = "running" /\ AtGet(cur) /\ queue # <<>>)

\* The remote call ends.  Every LlmReturn(res) has the same enabling
\* condition and each of them ends it, so weak fairness of one of them is
\* weak fairness of their disjunction.
LlmFair == WF_vars(LlmReturn(Library("ack_done")))

SpecFair ==
    /\ Init
    /\ [][NextFair]_vars
    /\ DequeueFair
    /\ LlmFair

\* SpecIngest: a started interceptor whose window is nearly full (it has
\* observed and processed SEEN_MAXLEN - WindowRoom messages); messages
\* arrive with a new identifier or replay the oldest or newest identifier
\* of the window or the first identifier ever observed, with and without text.
IngestIds ==
    {FreshId, 1} \cup (IF seen_ids = <<>> THEN {} ELSE {seen_ids[1], seen_ids[Len(seen_ids)]})

CanIngest(id) == Len(hist) < MaxIngest /\ id <= SEEN_MAXLEN + MaxOver

InitIngest ==
    /\ seen_ids = [i \in 1..(SEEN_MAXLEN - WindowRoom) |-> i]
    /\ queue = <<>>
    /\ worker = "running"
    /\ cur = NoRound
    /\ lib_files = ClipsOnDisk
    /\ llm_model = FALSE
    /\ hist = <<>>
    /\ del_started = 0
    /\ obs = NoObs
    /\ msgs = <<>>
    /\ bot_msg_ids = {}
    /\ del_tasks = <<>>
    /\ FnInit

NextIngest ==
    \/ \E id \in IngestIds, text \in RawTexts : CanIngest(id) /\ OnBotMessage(id, text)
                                                       /\ UNCHANGED del_vars
    \/ WorkerDequeue
    \/ BotSendReturn(TRUE)
    \/ Stop

SpecIngest == InitIngest /\ [][NextIngest]_vars

\* SpecBatch: the interceptor from construction on without a remote
\* classifier model, the messages being markdown texts.
InitBatch ==
    /\ seen_ids = <<>>
    /\ queue = <<>>
    /\ worker = "none"
    /\ cur = NoRound
    /\ lib_files = ClipsOnDisk
    /\ llm_model = FALSE
    /\ hist = <<>>
    /\ del_started = 0
    /\ obs = NoObs
    /\ msgs = <<>>
    /\ bot_msg_ids = {}
    /\ del_tasks = <<>>
    /\ FnInit

NextBatch ==
    \/ Start
    \/ \E text \in BatchTexts : CanEnqueue /\ OnBotMessage(FreshId, text) /\ UNCHANGED del_vars
    \/ WorkerDequeue
    \/ \E out \in TtsOutcomes : TtsReturn(out)
    \/ \E ok \in BOOLEAN : BotSendReturn(ok)
    \/ \E ok \in BOOLEAN : UserSendReturn(ok)
    \/ Stop

SpecBatch == InitBatch /\ [][NextBatch]_vars

\* Texts for the deletion side: one short text and two texts that differ
\* in their 101st character only.
DelTexts == {T_done, T_long("a"), T_long("b")}

\* SpecDelete: a started interceptor; the bot posts messages, both clients
\* receive them and the deletion tasks run.  The worker, which shares no
\* state with the deletion side, takes no step here.
InitDelete ==
    /\ seen_ids = <<>>
    /\ queue = <<>>
    /\ worker = "running"
    /\ cur = NoRound
    /\ lib_files = ClipsOnDisk
    /\ llm_model = FALSE
    /\ hist = <<>>
    /\ del_started = 0
    /\ obs = NoObs
    /\ msgs = <<>>
    /\ bot_msg_ids = {}
    /\ del_tasks = <<>>
    /\ FnInit

NextDelete ==
    \/ \E text \in DelTexts : BotPosts(text)
    \/ Intercept
    \/ OnBotOutgoing
    \/ \E j \in 1..Len(del_tasks) : Poll(j)
    \/ \E j \in 1..Len(del_tasks), ok \in BOOLEAN : BotDeleteReturn(j, ok)
    \/ \E j \in 1..Len(del_tasks), out \in ScanOutcomes : ScanReturn(j, out)

SpecDelete == InitDelete /\ [][NextDelete]_vars

\* SpecFlow: the whole flow of a message.  The bot posts, both clients
\* receive the message, its deletion task and the worker run side by side
\* on the one event loop.  No remote classifier model is configured.
FlowTexts == {T_done, T_star}

NextFlow ==
    \/ \E text \in FlowTexts : Len(msgs) < MaxFlowPosts /\ BotPosts(text)
    \/ Intercept
    \/ OnBotOutgoing
    \/ \E j \in 1..Len(del_tasks) : Poll(j)
    \/ \E j \in 1..Len(del_tasks), ok \in BOOLEAN : BotDeleteReturn(j, ok)
    \/ \E j \in 1..Len(del_tasks), out \in ScanOutcomes : ScanReturn(j, out)
    \/ WorkerDequeue
    \/ \E out \in TtsOutcomes : TtsReturn(out)
    \/ \E ok \in BOOLEAN : BotSendReturn(ok)
    \/ \E ok \in BOOLEAN : UserSendReturn(ok)

SpecFlow == InitDelete /\ [][NextFlow]_vars

(***************************************************************************)
(* The classifier called directly: classify(text) with the remote call as  *)
(* its one suspension point, and _parse_llm_response(raw, original_text).  *)
(* The interceptor is idle.  patterns.match is called with no add_patterns *)
(* before it, where the compiled cache, once built, equals PATTERNS.       *)
(***************************************************************************)
icpt_vars == <<seen_ids, queue, worker, cur, llm_model, hist, del_started, obs, del_vars>>

\* A JSON text field: absent, a string, or null.
NoText == [kind |-> "absent", chars |-> <<>>]
Str(chars) == [kind |-> "string", chars |-> chars]
NullText == [kind |-> "null", chars |-> <<>>]

\* What a piece of response text is to json.loads and to startswith("{"):
\* a JSON object with its fields ("absent" for a missing one), or a text of
\* kind "array" (valid JSON that is no object), "brace" (starts with a brace
\* and is no JSON), "prose" (any other text) or "empty".
Obj(action, key, text) == [kind |-> "object", action |-> action, key |-> key, text |-> text]
NonObj(kind) == [kind |-> kind, action |-> "absent", key |-> "absent", text |-> NoText]

\* One element of raw.split(fence): whether the trimmed part starts with
\* "json", and what follows the tag.
Part(tag, body) == [tag |-> tag, body |-> body]

\* The shapes of a response around its document doc:
\*   bare            doc
\*   fenced_json     fence json doc fence
\*   fenced          fence doc fence
\*   preamble        prose fence json doc fence
\*   brace_preamble  prose that starts with a brace, fence json doc fence
\*   embedded        doc itself, an object whose text field holds a fenced span
Raw(shape, doc) == [shape |-> shape, doc |-> doc]
NoRaw == Raw("none", NonObj("empty"))

\* cleaned.split(fence)
Parts(raw) ==
    CASE raw.shape = "bare" -> <<Part(FALSE, raw.doc)>>
      [] raw.shape = "fenced_json" ->
            <<Part(FALSE, NonObj("empty")), Part(TRUE, raw.doc), Part(FALSE, NonObj("empty"))>>
      [] raw.shape = "fenced" ->
            <<Part(FALSE, NonObj("empty")), Part(FALSE, raw.doc), Part(FALSE, NonObj("empty"))>>
      [] raw.shape = "preamble" ->
            <<Part(FALSE, NonObj("prose")), Part(TRUE, raw.doc), Part(FALSE, NonObj("empty"))>>
      [] raw.shape = "brace_preamble" ->
            <<Part(FALSE, NonObj("brace")), Part(TRUE, raw.doc), Part(FALSE, NonObj("empty"))>>
      [] raw.shape = "embedded" ->
            <<Part(FALSE, NonObj("brace")), Part(FALSE, NonObj("prose")),
              Part(FALSE, NonObj("prose"))>>

\* The complete response text as json.loads reads it: a text with fences
\* around a document is no JSON.
Whole(raw) == IF raw.shape \in {"bare", "embedded"} THEN raw.doc ELSE NonObj("prose")

\* part.startswith("{"), after the tag is dropped
StartsWithBrace(part) == part.body.kind \in {"object", "brace"}

\* The text handed to json.loads: with a fence in the response, the first
\* part that starts with a brace, else the response as it is.
ExtractJson(raw) ==
    LET parts  == Parts(raw)
        braces == {i \in 1..Len(parts) : StartsWithBrace(parts[i])}
    IN  IF Len(parts) = 1 \/ braces = {} THEN Whole(raw)
        ELSE parts[CHOOSE i \in braces : \A j \in braces : i <= j].body

\* A TypeError leaving _parse_llm_response (re.sub on a text that is no string).
Raised == [action |-> "raise", key |-> NoKey, text |-> <<>>]

\* _parse_llm_response(raw, original_text): None is NoResult.
ParseLlmResponse(raw, original_text) ==
    LET data == ExtractJson(raw)
    IN  IF data.kind # "object" THEN NoResult
        ELSE IF data.action = "library" /\ data.key # "absent" THEN Library(data.key)
        ELSE IF data.action = "tts"
        THEN IF data.text.kind = "null" THEN Raised
             ELSE Speech(CleanForSpeech(IF data.text.kind = "absent" THEN original_text
                                        ELSE data.text.chars))
        ELSE NoResult

\* How the awaited remote call ends: the timeout of wait_for, an exception
\* of the completion call, or a response text.
Ev(kind, raw) == [kind |-> kind, raw |-> raw]

\* An exception of the remote call leaves _classify_llm.
ClassifyLlmNoCatch(ev, text) ==
    IF ev.kind = "timeout" THEN NoResult
    ELSE IF ev.kind = "raise" THEN Raised
    ELSE ParseLlmResponse(ev.raw, text)

\* _classify_llm once the awaited call ended: TimeoutError and every
\* Exception give None.
ClassifyLlm(ev, text) ==
    IF ev.kind \in {"timeout", "raise"} THEN NoResult
    ELSE IF ParseLlmResponse(ev.raw, text) = Raised THEN NoResult
    ELSE ParseLlmResponse(ev.raw, text)

\* A classify call: its text, where it is ("llm": awaiting the remote call),
\* its result, the remote calls made and how the last one ended.
ClassifyRecord(text, pc, out, llm_calls, ev) ==
    [fn |-> "classify", text |-> text, pc |-> pc, out |-> out, llm_calls |-> llm_calls,
     ev |-> ev]

NoEv == Ev("none", NoRaw)

\* classify with the remote call made before the pattern matcher is asked.
ClassifyBeginRemoteFirst(text, model) ==
    IF Strip(text) = <<>> THEN ClassifyRecord(text, "done", Speech(<<>>), 0, NoEv)
    ELSE IF model THEN ClassifyRecord(text, "llm", NoResult, 1, NoEv)
    ELSE IF Match(text) # NoKey
    THEN ClassifyRecord(text, "done", Library(Match(text)), 0, NoEv)
    ELSE ClassifyRecord(text, "done", Speech(CleanForSpeech(text)), 0, NoEv)

\* classify up to its first suspension: a blank text, a pattern hit and a
\* classifier without model answer at once.
ClassifyBegin(text, model) ==
    IF Strip(text) = <<>> THEN ClassifyRecord(text, "done", Speech(<<>>), 0, NoEv)
    ELSE IF Match(text) # NoKey
    THEN ClassifyRecord(text, "done", Library(Match(text)), 0, NoEv)
    ELSE IF model THEN ClassifyRecord(text, "llm", NoResult, 1, NoEv)
    ELSE ClassifyRecord(text, "done", Speech(CleanForSpeech(text)), 0, NoEv)

\* classify after the remote call: its result, or the sanitized text.
ClassifyEnd(c, ev) ==
    LET llm_result == ClassifyLlm(ev, c.text)
    IN  [c EXCEPT !.pc = "done", !.ev = ev,
                  !.out = IF llm_result = NoResult THEN Speech(CleanForSpeech(c.text))
                          ELSE llm_result]

T_ital == <<"*", "a", "*">>
T_fenced == <<"a">> \o Fence \o <<"b">> \o Fence

ClassifyTexts == {<<>>, <<" ">>, T_done, <<" ">> \o T_done, T_star, T_ital}

JsonTexts == {NoText, Str(<<>>), Str(T_ital), NullText}

Docs ==
    {Obj(a, k, t) : a \in {"library", "tts", "skip", "absent"},
                    k \in {"absent", "ack_done"}, t \in JsonTexts}
    \cup {NonObj(kind) : kind \in {"array", "brace", "prose", "empty"}}

Shapes == {"bare", "fenced_json", "fenced", "preamble", "brace_preamble"}

Raws ==
    {Raw(shape, doc) : shape \in Shapes, doc \in Docs}
    \cup {Raw("embedded", Obj("tts", "absent", Str(T_fenced)))}

Evs == {Ev("timeout", NoRaw), Ev("raise", NoRaw)} \cup {Ev("response", raw) : raw \in Raws}

ClassifyCall(text) ==
    /\ call.fn = "classify" => call.pc = "done"
    /\ call' = ClassifyBegin(text, llm_model)
    /\ UNCHANGED <<patterns, compiled, manifest, manifest_file, lib_files, icpt_vars, aux_vars>>

ClassifyLlmReturn(ev) ==
    /\ call.fn = "classify"
    /\ call.pc = "llm"
    /\ call' = ClassifyEnd(call, ev)
    /\ UNCHANGED <<patterns, compiled, manifest, manifest_file, lib_files, icpt_vars, aux_vars>>

ParseCall(raw, original_text) ==
    /\ call.fn = "classify" => call.pc = "done"
    /\ call' = [fn |-> "parse", raw |-> raw, original_text |-> original_text,
                out |-> ParseLlmResponse(raw, original_text)]
    /\ UNCHANGED <<patterns, compiled, manifest, manifest_file, lib_files, icpt_vars, aux_vars>>

NextClassify ==
    \/ \E text \in ClassifyTexts : ClassifyCall(text)
    \/ \E ev \in Evs : ClassifyLlmReturn(ev)
    \/ \E raw \in Raws, original_text \in {T_star, T_ital} : ParseCall(raw, original_text)

SpecClassify == Init /\ [][NextClassify]_vars

(***************************************************************************)
(* _clean_for_speech called directly.                                      *)
(***************************************************************************)
\* Every text of at most MaxTextLen characters over a heading marker, an
\* emphasis marker, a blank and a letter.
CleanChars == {"a", "#", "*", " "}

ShortTexts == UNION {[1..k -> CleanChars] : k \in 0..MaxTextLen}

\* Markdown constructs around a word, which may be a snake_case identifier.
Words == {<<"a">>, <<"a", "_", "b">>}

Bold(w) == <<"*", "*">> \o w \o <<"*", "*">>
Ital(w) == <<"*">> \o w \o <<"*">>
Code(w) == <<BT>> \o w \o <<BT>>
Fenced(w) == Fence \o w \o Fence
Link(w) == <<"[">> \o w \o <<"]", "(">> \o Https \o <<"u", ")">>
Url == Https \o <<"v">>

Constructs ==
    {Url} \cup UNION {{w, Bold(w), Ital(w), Code(w), Fenced(w), Link(w)} : w \in Words}

\* One construct, or two with a blank between them.
MarkupTexts == Constructs \cup {JoinSpace(<<c, d>>) : c, d \in Constructs}

\* The ones without any markup: words with single blanks between them.
PlainTexts == Words \cup {JoinSpace(<<c, d>>) : c, d \in Words}

CleanCall(text) ==
    /\ call = NoCall
    /\ call' = [fn |-> "clean", text |-> text, out |-> CleanForSpeech(text)]
    /\ UNCHANGED <<patterns, compiled, manifest, manifest_file, lib_files, icpt_vars, aux_vars>>

NextSanitize ==
    \/ \E text \in ShortTexts : CleanCall(text)
    \/ \E text \in MarkupTexts : CleanCall(text)

SpecSanitize == Init /\ [][NextSanitize]_vars

(***************************************************************************)
(* The pattern engine called directly: match(text) and                     *)
(* add_patterns(key, new_patterns).  A rule holds the literals of its      *)
(* intent; PATTERNS[key].extend is the union with the new literals.  A     *)
(* literal added to an intent is anchored as the intent's rules are, and   *)
(* the literal of a new intent is anchored.                                *)
(***************************************************************************)
\* The position of key in a table, or 0.
KeyIndex(table, key) ==
    IF \E i \in 1..Len(table) : table[i].key = key
    THEN CHOOSE i \in 1..Len(table) : table[i].key = key
    ELSE 0

\* if key not in PATTERNS: PATTERNS[key] = []; PATTERNS[key].extend(new_patterns)
Extend(table, key, lits) ==
    IF KeyIndex(table, key) = 0
    THEN Append(table, [key |-> key, anchored |-> TRUE, alts |-> lits])
    ELSE [table EXCEPT ![KeyIndex(table, key)].alts = @ \cup lits]

\* add_patterns that recompiles a key only if the cache already holds it.
RecompileCachedOnly(cache, table, key) ==
    IF KeyIndex(cache, key) # 0
    THEN [cache EXCEPT ![KeyIndex(cache, key)] = table[KeyIndex(table, key)]]
    ELSE cache

\* add_patterns on the cache: a key the cache holds is recompiled in place,
\* a new key is compiled into a built cache, an empty cache stays empty.
Recompile(cache, table, key) ==
    IF KeyIndex(cache, key) # 0
    THEN [cache EXCEPT ![KeyIndex(cache, key)] = table[KeyIndex(table, key)]]
    ELSE IF cache # <<>> THEN Append(cache, table[KeyIndex(table, key)])
    ELSE cache

\* _compile_patterns
Compile(cache, table) == IF cache # <<>> THEN cache ELSE table

W_ok == <<"o", "k">>
W_oops == <<"o", "o", "p", "s">>
W_custom == <<"c", "u", "s", "t", "o", "m">>

\* An existing anchored intent, an existing unanchored one and a new one.
Additions == {[key |-> "ack_done", lit |-> W_ok], [key |-> "ack_error", lit |-> W_oops],
              [key |-> "ack_custom", lit |-> W_custom]}

NoAddition == [key |-> NoKey, lit |-> <<>>]

\* Texts that no intent, one intent or two intents match, before or after
\* the additions.
MatchTexts ==
    {<<>>, <<" ">>, <<"x">>, T_done, <<"D", "O", "N", "E">>, <<" ">> \o T_done,
     W_hmm \o <<" ">> \o W_checking, W_done \o <<" ">> \o W_error,
     W_error \o <<" ">> \o W_done, W_ok, W_oops, W_custom,
     W_custom \o <<" ">> \o W_error, W_custom \o <<" ">> \o W_oops}

\* add_patterns(key, [lit]); the call record keeps the tables before it.
AddPatterns(key, lit) ==
    /\ patterns' = Extend(patterns, key, {lit})
    /\ compiled' = Recompile(compiled, patterns', key)
    /\ call' = [fn |-> "add", added |-> [key |-> key, lit |-> lit],
                table |-> patterns, rules |-> compiled]
    /\ UNCHANGED <<manifest, manifest_file, lib_files, icpt_vars, aux_vars>>

\* match(text); the call record keeps PATTERNS and the compiled rules the
\* call ran with, and the addition made just before it, if any.
MatchCall(text) ==
    /\ compiled' = Compile(compiled, patterns)
    /\ call' = [fn |-> "match", text |-> text, out |-> MatchIn(compiled', text),
                table |-> patterns, rules |-> compiled',
                added |-> IF call.fn = "add" THEN call.added ELSE NoAddition,
                was_built |-> call.fn = "add" /\ call.rules # <<>>]
    /\ UNCHANGED <<patterns, manifest, manifest_file, lib_files, icpt_vars, aux_vars>>

NextPatterns ==
    \/ \E a \in Additions : AddPatterns(a.key, a.lit)
    \/ \E text \in MatchTexts : MatchCall(text)

SpecPatterns == Init /\ [][NextPatterns]_vars

(***************************************************************************)
(* The audio library called directly: load() and get(key) of one           *)
(* AudioLibrary object, while clips are created and removed on disk.  A    *)
(* clip file is named by its key; the manifest file, when it is well       *)
(* formed, holds ManifestKeys.                                             *)
(***************************************************************************)
NoPath == "none"

\* get answers for every key of the manifest, the clip on disk or not.
LibraryGetIgnoresDisk(man, files, key) == IF key \in man THEN key ELSE NoPath

\* get(key): the path of the clip, or None.
LibraryGet(man, files, key) ==
    IF key \notin man THEN NoPath
    ELSE IF key \notin files THEN NoPath
    ELSE key

\* Keys asked for and clips written: the two of the manifest and one more.
LibraryKeys == ManifestKeys \cup {"ack_other"}

\* load(): False when the manifest file is missing or no JSON; else the
\* manifest is stored, the missing clips are reported and the answer is True.
Load ==
    /\ manifest' = IF manifest_file = "valid" THEN ManifestKeys ELSE manifest
    /\ call' = [fn |-> "load", ok |-> manifest_file = "valid", file |-> manifest_file,
                missing |-> IF manifest_file = "valid" THEN ManifestKeys \ lib_files ELSE {}]
    /\ UNCHANGED <<patterns, compiled, manifest_file, lib_files, icpt_vars, aux_vars>>

\* get(key); the call record keeps the manifest and the disk of the moment,
\* and whether the clip of key was written or removed just before.
Get(key) ==
    /\ call' = [fn |-> "get", key |-> key, out |-> LibraryGet(manifest, lib_files, key),
                manifest |-> manifest, files |-> lib_files,
                change |-> IF call.fn \in {"create", "remove"} /\ call.key = key
                           THEN call.fn ELSE "none"]
    /\ UNCHANGED <<patterns, compiled, manifest, manifest_file, lib_files, icpt_vars, aux_vars>>

\* A clip is written to the library directory (as generate_library does).
CreateClip(key) ==
    /\ key \notin lib_files
    /\ lib_files' = lib_files \cup {key}
    /\ call' = [fn |-> "create", key |-> key]
    /\ UNCHANGED <<patterns, compiled, manifest, manifest_file, icpt_vars, aux_vars>>

\* A clip is removed from the library directory.
RemoveClip(key) ==
    /\ key \in lib_files
    /\ lib_files' = lib_files \ {key}
    /\ call' = [fn |-> "remove", key |-> key]
    /\ UNCHANGED <<patterns, compiled, manifest, manifest_file, icpt_vars, aux_vars>>

\* A new AudioLibrary object; the manifest file and the clips as they may be.
InitLibrary ==
    /\ seen_ids = <<>>
    /\ queue = <<>>
    /\ worker = "none"
    /\ cur = NoRound
    /\ lib_files \in SUBSET ManifestKeys
    /\ llm_model = FALSE
    /\ hist = <<>>
    /\ del_started = 0
    /\ obs = NoObs
    /\ msgs = <<>>
    /\ bot_msg_ids = {}
    /\ del_tasks = <<>>
    /\ call = NoCall
    /\ patterns = PATTERNS
    /\ compiled = <<>>
    /\ manifest = {}
    /\ manifest_file \in {"valid", "invalid", "missing"}
    /\ AuxInit

NextLibrary ==
    \/ Load
    \/ \E key \in LibraryKeys : Get(key)
    \/ \E key \in LibraryKeys : CreateClip(key)
    \/ \E key \in LibraryKeys : RemoveClip(key)

SpecLibrary == InitLibrary /\ [][NextLibrary]_vars

(***************************************************************************)
(* generate_library(tts_engine): one run over the loaded manifest.  The    *)
(* run is cut at each turn of the for loop and at the await of the         *)
(* synthesis call; the synthesis is whatever the caller handed in.         *)
(***************************************************************************)
\* The entries of the manifest file in the order of the file (dict order).
ManifestOrder == <<"ack_started", "ack_done">>

\* What the awaited synthesis and the rename after it can end with: a file
\* moved into the library, a file the rename fails on, None, an exception.
GenOutcomes == {"moved", "rename_error", "none", "raise"}

\* The failure of one entry ends the whole run.
GenFailedAborts(g) == [g EXCEPT !.failed = @ + 1, !.pc = "loop", !.todo = <<>>]

\* One entry failed (None at line 126, an exception at line 137): it is
\* counted and the loop goes on with the next entry.
GenFailed(g) == [g EXCEPT !.failed = @ + 1, !.pc = "loop"]

\* Lines 103-111: no manifest, no run; else the loop starts.
GenerateStart ==
    /\ gen.pc = "idle"
    /\ gen' = IF manifest = {}
              THEN [NoGen EXCEPT !.pc = "done"]
              ELSE [NoGen EXCEPT !.pc = "loop", !.entries = manifest,
                                 !.todo = SelectSeq(ManifestOrder, LAMBDA k : k \in manifest)]
    /\ UNCHANGED <<call, patterns, compiled, manifest, manifest_file, lib_files, icpt_vars, tts, rec, ply>>

\* Lines 113-125: the next entry; an existing clip is skipped, for a missing
\* one the synthesis is called and awaited.
GenerateVisit ==
    /\ gen.pc = "loop"
    /\ gen.todo # <<>>
    /\ LET key == Head(gen.todo)
           g == [gen EXCEPT !.todo = Tail(@), !.key = key, !.visits = Append(@, key)]
       IN  gen' = IF key \in lib_files
                  THEN [g EXCEPT !.skipped = @ + 1, !.existed = @ \cup {key}]
                  ELSE [g EXCEPT !.pc = "tts", !.tts_calls = Append(@, key)]
    /\ UNCHANGED <<call, patterns, compiled, manifest, manifest_file, lib_files, icpt_vars, tts, rec, ply>>

\* Lines 125-139: the synthesis comes back.
GenerateTtsReturn(out) ==
    /\ gen.pc = "tts"
    /\ gen' = IF out = "moved"
              THEN [gen EXCEPT !.generated = @ + 1, !.pc = "loop"]
              ELSE GenFailed(gen)
    /\ lib_files' = IF out = "moved" THEN lib_files \cup {gen.key} ELSE lib_files
    /\ UNCHANGED <<call, patterns, compiled, manifest, manifest_file, icpt_vars, tts, rec, ply>>

\* Lines 141-144: the loop is over, the counts are logged.
GenerateEnd ==
    /\ gen.pc = "loop"
    /\ gen.todo = <<>>
    /\ gen' = [gen EXCEPT !.pc = "done"]
    /\ UNCHANGED <<call, patterns, compiled, manifest, manifest_file, lib_files, icpt_vars, tts, rec, ply>>

\* main.generate_library: load(), then one run; clips come and go on disk
\* before the run.
NextGenerate ==
    \/ gen.pc = "idle" /\ Load
    \/ \E key \in LibraryKeys : gen.pc = "idle" /\ CreateClip(key)
    \/ \E key \in LibraryKeys : gen.pc = "idle" /\ RemoveClip(key)
    \/ GenerateStart
    \/ GenerateVisit
    \/ \E out \in GenOutcomes : GenerateTtsReturn(out)
    \/ GenerateEnd

SpecGenerate == InitLibrary /\ [][NextGenerate]_vars

(***************************************************************************)
(* TTSEngine.generate(text) over one of the providers, cut at its awaits:  *)
(* the provider's synthesize under wait_for, the start of ffmpeg, and      *)
(* ffmpeg's exit.                                                          *)
(***************************************************************************)
\* The three synthesize methods: EdgeTTSProvider, LocalTTSProvider (and
\* ProxyTTSProvider, which inherits it), LiteLLMProvider.
Providers == {"edge", "local", "litellm"}

\* How the awaited synthesize can end under wait_for: with the path of its
\* file, with None (the provider caught its own failure), with an exception,
\* or cut off by the engine's timeout.
ProviderOutcomes == {"path", "none", "raise", "timeout"}

\* How the start of ffmpeg can end: started, FileNotFoundError, or another
\* OSError (PermissionError for an ffmpeg that is not executable).
ExecOutcomes == {"started", "not_found", "os_error"}

\* generate takes only the empty text for blank.
TtsBlankEmptyOnly(t) == t.kind # "string" \/ t.chars = <<>>

\* Line 311: not text or not text.strip().
TtsBlank(t) == t.kind # "string" \/ Strip(t.chars) = <<>>

\* Edge and Local make their temporary file before their first await
\* (lines 62, 112); LiteLLM makes it after its only await (line 212).
FileBeforeAwait(provider) == provider \in {"edge", "local"}

\* Whether the provider's temporary file is on disk when synthesize has
\* ended.  With a path it is.  With None it is not: Edge and Local unlink it
\* in their except Exception (lines 71, 125, 136), LiteLLM has not made it
\* (line 210).  Cut off by the timeout, synthesize is cancelled at its await:
\* CancelledError passes except Exception, so the file made before the await
\* stays.  An exception leaves synthesize before the file is made (imports,
\* mkstemp) or, in LiteLLM, while the response is written to it (lines
\* 213-226, which catch AttributeError only).
ProviderLeavesFile(provider, out) ==
    CASE out = "path"    -> TRUE
      [] out = "none"    -> FALSE
      [] out = "timeout" -> FileBeforeAwait(provider)
      [] out = "raise"   -> provider = "litellm"

\* Lines 311-317: a blank text gives None at once; else synthesize is called
\* under wait_for.
EngineGenerate(text, provider) ==
    /\ tts.pc = "idle"
    /\ tts' = IF TtsBlank(text)
              THEN [tts EXCEPT !.pc = "done", !.text = text, !.provider = provider,
                               !.ret = "none"]
              ELSE [tts EXCEPT !.pc = "synthesize", !.text = text, !.provider = provider,
                               !.provider_calls = @ + 1,
                               !.files = IF FileBeforeAwait(provider) THEN {"raw"} ELSE {}]
    /\ UNCHANGED <<call, patterns, compiled, manifest, manifest_file, lib_files, icpt_vars, gen, rec, ply>>

\* Lines 315-329 and 352-356: synthesize has ended.  Without a path generate
\* answers None; with one, _convert_to_ogg makes its own temporary file and
\* starts ffmpeg.
ProviderReturn(out) ==
    /\ tts.pc = "synthesize"
    /\ LET files == IF ProviderLeavesFile(tts.provider, out) THEN {"raw"} ELSE {}
       IN  tts' = IF out = "path"
                  THEN [tts EXCEPT !.pc = "exec", !.provider_out = out,
                                   !.files = files \cup {"ogg"}]
                  ELSE [tts EXCEPT !.pc = "done", !.provider_out = out, !.files = files,
                                   !.ret = "none"]
    /\ UNCHANGED <<call, patterns, compiled, manifest, manifest_file, lib_files, icpt_vars, gen, rec, ply>>

\* Lines 356-368 and 377-380: ffmpeg is started and awaited; not found, the
\* transcoder's file is unlinked and generate answers with the raw file
\* (lines 330-333); any other error leaves _convert_to_ogg and generate.
ExecReturn(out) ==
    /\ tts.pc = "exec"
    /\ tts' = CASE out = "started"   -> [tts EXCEPT !.pc = "wait", !.exec_out = out]
                [] out = "not_found" -> [tts EXCEPT !.pc = "done", !.exec_out = out,
                                                   !.files = @ \ {"ogg"}, !.ret = "raw"]
                [] out = "os_error"  -> [tts EXCEPT !.pc = "done", !.exec_out = out,
                                                   !.ret = "raise"]
    /\ UNCHANGED <<call, patterns, compiled, manifest, manifest_file, lib_files, icpt_vars, gen, rec, ply>>

\* Lines 368-375 and 329-336: ffmpeg has exited.  Exit 0: the raw file is
\* unlinked and the transcoded one returned; else the transcoded one is
\* unlinked and the raw one returned.
FfmpegExit(code) ==
    /\ tts.pc = "wait"
    /\ tts' = IF code = 0
              THEN [tts EXCEPT !.pc = "done", !.files = @ \ {"raw"}, !.ret = "ogg"]
              ELSE [tts EXCEPT !.pc = "done", !.files = @ \ {"ogg"}, !.ret = "raw"]
    /\ UNCHANGED <<call, patterns, compiled, manifest, manifest_file, lib_files, icpt_vars, gen, rec, ply>>

\* The texts handed to generate: None, the empty text, blanks, and speech.
TtsTexts ==
    {NullText, Str(<<>>), Str(<<" ">>), Str(<<" ", "\n">>), Str(<<"\t">>),
     Str(<<"o", "k">>), Str(<<" ", "o", "k">>), Str(T_done), Str(T_star)}

NextTts ==
    \/ \E text \in TtsTexts, provider \in Providers : EngineGenerate(text, provider)
    \/ \E out \in ProviderOutcomes : ProviderReturn(out)
    \/ \E out \in ExecOutcomes : ExecReturn(out)
    \/ \E code \in {0, 1} : FfmpegExit(code)

SpecTts == Init /\ [][NextTts]_vars

(***************************************************************************)
(* _send_voice called as _handle_result calls it, with the original text   *)
(* as caption: the text of one item, or the texts of a batch joined by     *)
(* _process_batch.  The texts are long, so the call is made directly; the  *)
(* worker of the interceptor is idle.                                      *)
(***************************************************************************)
\* No caption: None.
NoCaption == [present |-> FALSE, chars |-> <<>>]

\* The caption is passed uncut.
CaptionUncut(caption) ==
    IF caption = <<>> THEN NoCaption ELSE [present |-> TRUE, chars |-> caption]

\* caption[:1024] if caption else None
Caption(caption) ==
    IF caption = <<>> THEN NoCaption
    ELSE [present |-> TRUE, chars |-> SubSeq(caption, 1, Min2(CAPTION_LIMIT, Len(caption)))]

\* _handle_result, line 249, and _send_voice up to the await of
\* self._bot.send_voice.  texts are the texts of the round: one, or those
\* of a batch, which _process_batch joins with single spaces.
SendVoiceCall(texts) ==
    /\ call = NoCall
    /\ LET original == JoinSpace(texts)
       IN  call' = [fn |-> "send_voice", pc |-> "send_bot", texts |-> Len(texts),
                    original |-> original, bot_caption |-> Caption(original),
                    user_sent |-> FALSE, user_caption |-> NoCaption]
    /\ UNCHANGED <<patterns, compiled, manifest, manifest_file, lib_files, icpt_vars, aux_vars>>

\* self._bot.send_voice returns, or raises and the fallback
\* self._client.send_voice is awaited.
SendBotReturn(ok) ==
    /\ call.fn = "send_voice"
    /\ call.pc = "send_bot"
    /\ call' = IF ok THEN [call EXCEPT !.pc = "sent_bot"]
               ELSE [call EXCEPT !.pc = "send_user", !.user_sent = TRUE,
                                 !.user_caption = Caption(call.original)]
    /\ UNCHANGED <<patterns, compiled, manifest, manifest_file, lib_files, icpt_vars, aux_vars>>

\* The fallback returns or raises.
SendUserReturn(ok) ==
    /\ call.fn = "send_voice"
    /\ call.pc = "send_user"
    /\ call' = [call EXCEPT !.pc = IF ok THEN "sent_user" ELSE "failed"]
    /\ UNCHANGED <<patterns, compiled, manifest, manifest_file, lib_files, icpt_vars, aux_vars>>

\* A text of n characters c.
Rep(c, n) == [i \in 1..n |-> c]

\* Single texts around the limit, and batches of seven texts (the dequeued
\* one and the six drained at least) whose join is under and over it.
CaptionLens == {0, 1, 2, CAPTION_LIMIT - 1, CAPTION_LIMIT, MaxCaptionLen - 1, MaxCaptionLen}
CaptionTexts == {Rep(c, n) : c \in {"a", "b"}, n \in CaptionLens}
BatchLens == {1, 100, 145, 146, 147, 400}
CaptionRounds ==
    {<<t>> : t \in CaptionTexts} \cup {[i \in 1..7 |-> Rep("a", n)] : n \in BatchLens}

NextCaption ==
    \/ \E texts \in CaptionRounds : SendVoiceCall(texts)
    \/ \E ok \in BOOLEAN : SendBotReturn(ok)
    \/ \E ok \in BOOLEAN : SendUserReturn(ok)

SpecCaption == Init /\ [][NextCaption]_vars

(***************************************************************************)
(* VoiceRecorder.  Three threads act on it: the hotkey thread calls        *)
(* toggle(), the audio thread of each open stream calls _audio_callback,   *)
(* the event loop runs _max_duration_stop.  toggle and _max_duration_stop  *)
(* hold _lock; _audio_callback takes no lock.  Each is one step here.      *)
(***************************************************************************)
\* Everything but the recorder.
not_rec == <<call, patterns, compiled, manifest, manifest_file, lib_files, icpt_vars, gen, tts, ply>>

\* Lines 87-93 and 132-138: the stream the recorder holds is stopped.
StopStream(r) == [r EXCEPT !.open = @ \ {r.stream}, !.stream = 0]

\* Lines 95-108 and 140-152: the audio held, if any, goes to
\* _process_and_send.
HandOver(r) ==
    IF r.frames = <<>> THEN r
    ELSE [r EXCEPT !.sent = Append(@, r.frames), !.frames = <<>>, !.frame_count = 0]

\* toggle() while recording: _stop_recording.
ToggleStop ==
    /\ rec.recording
    /\ rec' = HandOver(StopStream([rec EXCEPT !.recording = FALSE]))
    /\ UNCHANGED not_rec

\* toggle() while not recording: _start_recording; the stream starts or
\* sd.InputStream raises.
ToggleStart(ok) ==
    /\ ~rec.recording
    /\ rec.made < MaxStreams
    /\ rec' = IF ok
              THEN [rec EXCEPT !.frames = <<>>, !.frame_count = 0, !.recording = TRUE,
                               !.made = @ + 1, !.stream = rec.made + 1,
                               !.open = @ \cup {rec.made + 1}]
              ELSE [rec EXCEPT !.frames = <<>>, !.frame_count = 0, !.recording = FALSE]
    /\ UNCHANGED not_rec

\* _audio_callback of the open stream sid delivers a block (lines 116-127);
\* while _recording is false the callback returns at once.
AudioCallback(sid) ==
    /\ sid \in rec.open
    /\ rec.recording
    /\ LET frames == Append(rec.frames, sid)
           count  == rec.frame_count + 1
       IN  rec' = IF count >= LimitBlocks
                  THEN [rec EXCEPT !.frames = frames, !.frame_count = count,
                                   !.recording = FALSE, !.pending = @ + 1,
                                   !.limits = Append(@, [stream |-> sid, frames |-> frames])]
                  ELSE [rec EXCEPT !.frames = frames, !.frame_count = count]
    /\ UNCHANGED not_rec

\* The loop runs a scheduled _max_duration_stop.
MaxDurationStop ==
    /\ rec.pending > 0
    /\ rec' = HandOver(StopStream([rec EXCEPT !.pending = @ - 1, !.stops = @ + 1]))
    /\ UNCHANGED not_rec

NextRecorder ==
    \/ ToggleStop
    \/ \E ok \in BOOLEAN : ToggleStart(ok)
    \/ \E sid \in 1..MaxStreams : AudioCallback(sid)
    \/ MaxDurationStop

SpecRecorder == Init /\ [][NextRecorder]_vars

(***************************************************************************)
(* VoicePlayer: enqueue, the worker task and stop() on one event loop, and *)
(* the player processes, which exit on their own, on SIGTERM or on         *)
(* SIGKILL.  A task runs from one await to the next in one step.           *)
(***************************************************************************)
\* Everything but the player.
not_ply == <<call, patterns, compiled, manifest, manifest_file, lib_files, icpt_vars, gen, tts, rec>>

\* Lines 86-109: the worker takes the next path, the file is there, and
\* the player is being started.
TakeNext(p) ==
    [p EXCEPT !.queue = Tail(@), !.path = Head(p.queue), !.taken = Append(@, Head(p.queue)),
              !.pc = "exec"]

\* Lines 95-98 and 85-86: the finally block removes the file, and the loop
\* goes on: queue.get() returns at once when a path is queued, else the
\* worker suspends in it.
RoundOver(p) ==
    LET done == [p EXCEPT !.files = @ \ {p.path}, !.path = 0, !.current_proc = 0]
    IN  IF done.queue # <<>> THEN TakeNext(done) ELSE [done EXCEPT !.pc = "get"]

\* enqueue(): the voice message is downloaded and its path queued; a
\* worker suspended in queue.get() takes it.
PlayerEnqueue ==
    /\ ply.downloaded < MaxPlay
    /\ LET f == ply.downloaded + 1
           p == [ply EXCEPT !.downloaded = f, !.files = @ \cup {f}, !.queue = Append(@, f)]
       IN  ply' = IF p.worker = "running" /\ p.pc = "get" THEN TakeNext(p) ELSE p
    /\ UNCHANGED not_ply

\* start(): the worker task is created; it takes the first path when one
\* is queued already, else it suspends in queue.get().
PlayerStart ==
    /\ ply.worker = "none"
    /\ LET p == [ply EXCEPT !.worker = "running"]
       IN  ply' = IF p.queue # <<>> THEN TakeNext(p) ELSE p
    /\ UNCHANGED not_ply

\* create_subprocess_exec returns the process, and the worker awaits its
\* exit (lines 109-115); or it raises, which _worker logs (line 93).
ExecDone(ok) ==
    /\ ply.worker = "running"
    /\ ply.pc = "exec"
    /\ ply' = IF ok
              THEN [ply EXCEPT !.started = @ + 1, !.alive = @ \cup {ply.started + 1},
                               !.current_proc = ply.started + 1, !.pc = "wait",
                               !.played = Append(@, ply.path)]
              ELSE RoundOver(ply)
    /\ UNCHANGED not_ply

\* The player process proc exits: at the end of the file, on the SIGTERM
\* of stop() or on its SIGKILL after three seconds.
ProcExit(proc) ==
    /\ proc \in ply.alive
    /\ ply' = [ply EXCEPT !.alive = @ \ {proc}]
    /\ UNCHANGED not_ply

\* proc.wait() returns in the worker (lines 115-121, then the finally).
WorkerResume ==
    /\ ply.worker = "running"
    /\ ply.pc = "wait"
    /\ ply.current_proc \notin ply.alive
    /\ ply' = RoundOver(ply)
    /\ UNCHANGED not_ply

\* Lines 55-62 with 90-98: the worker task is cancelled where it is
\* suspended and awaited.  In queue.get() nothing is held.  In
\* create_subprocess_exec asyncio closes the transport it was making, which
\* kills the process.  In proc.wait() the CancelledError passes _play: the
\* file is removed and the process is left as it is.
CancelWorker(p) ==
    IF p.worker # "running" THEN [p EXCEPT !.stop_pc = "done"]
    ELSE [p EXCEPT !.worker = "cancelled", !.stop_pc = "done",
                   !.files = IF p.pc = "get" THEN @ ELSE @ \ {p.path}]

\* stop(), lines 47-50: a running current process is terminated and
\* awaited; with none, the worker is cancelled at once.
StopCall ==
    /\ ply.stop_pc = "none"
    /\ ply.worker # "none"
    /\ ply' = IF ply.current_proc # 0 /\ ply.current_proc \in ply.alive
              THEN [ply EXCEPT !.stop_pc = "wait_proc", !.stop_proc = ply.current_proc]
              ELSE CancelWorker(ply)
    /\ UNCHANGED not_ply

\* stop(), lines 50-62: the terminated process has exited; the worker is
\* cancelled.
StopResume ==
    /\ ply.stop_pc = "wait_proc"
    /\ ply.stop_proc \notin ply.alive
    /\ ply' = CancelWorker(ply)
    /\ UNCHANGED not_ply

NextPlayer ==
    \/ PlayerStart
    \/ PlayerEnqueue
    \/ \E ok \in BOOLEAN : ExecDone(ok)
    \/ \E proc \in 1..MaxPlay : ProcExit(proc)
    \/ WorkerResume
    \/ StopCall
    \/ StopResume

SpecPlayer == Init /\ [][NextPlayer]_vars

(***************************************************************************)
(* Properties.                                                             *)
(***************************************************************************)
\* A step in which the worker takes items from the queue.
DequeueStep == hist' # hist /\ Len(hist') = Len(hist)

\* C1 (as stated): every work item yields exactly one of a delivered voice
\* message and a logged failure: at most one in total at any time, and
\* exactly one once its round is over, stop() included.
C1_OneOutcomeEvenOnStop ==
    /\ cur.voices + cur.fail_logs <= 1
    /\ (cur.pc = "get" /\ cur.items # <<>>) => cur.voices + cur.fail_logs = 1

\* C1 (amended): a round the worker completes yields exactly one of a
\* delivered voice message and a terminal failure log; a delivery on the
\* fallback transport comes with the error log of the failed first attempt
\* and no other delivery does; a round cut by stop() yields neither a voice
\* message nor a terminal failure log; no item is in more than one round.
C1_OneOutcomePerCompletedRound ==
    /\ cur.voices + cur.fail_logs <= 1
    /\ (cur.pc = "get" /\ cur.outcome = "done") => cur.voices + cur.fail_logs = 1
    /\ cur.voices = 1 => (cur.send_errors = IF cur.log = "sent_user" THEN 1 ELSE 0)
    /\ cur.send_errors = cur.user_sends
    /\ cur.outcome = "abandoned" => (worker = "cancelled" /\ cur.voices + cur.fail_logs = 0)
    /\ \A n \in 1..Len(hist) : hist[n] <= 1

\* C1 witness: a round delivered on the fallback transport after the
\* preferred transport failed.
C1_Witness == cur.outcome = "done" /\ cur.voices = 1 /\ cur.send_errors = 1

\* C2: a message whose identifier is in the window changes neither the
\* queue nor the window and starts no deletion task.
C2_DuplicateNotEnqueued ==
    [][(obs'.id \in Range(seen_ids) /\ OnBotMessage(obs'.id, obs'.text))
          => (queue' = queue /\ del_started' = del_started /\ seen_ids' = seen_ids)]_vars

\* C2 witness: a replayed identifier was dropped while its first message is queued.
C2_Witness == obs.fate = "duplicate" /\ obs.id \in Range(seen_ids) /\ queue # <<>>

\* C3: the window holds at most 100 identifiers, none twice; a new
\* identifier observed when it is full evicts the oldest and only that one.
C3_WindowBoundedOldestEvicted ==
    /\ [](/\ Len(seen_ids) <= 100
          /\ \A i, j \in 1..Len(seen_ids) : seen_ids[i] = seen_ids[j] => i = j)
    /\ [][(Len(seen_ids) = 100 /\ seen_ids' # seen_ids)
             => (/\ obs'.id \notin Range(seen_ids)
                 /\ seen_ids' = Append(Tail(seen_ids), obs'.id))]_vars

\* C3 witness: the window is full and its first identifier has been evicted.
C3_Witness == Len(seen_ids) = 100 /\ 1 \notin Range(seen_ids) /\ seen_ids[1] = 2

\* C4: a message with an unseen identifier and a text that is not blank is
\* appended to the queue, whatever is already queued or in process.
C4_NewMessageEnqueued ==
    [][(/\ obs'.id \notin Range(seen_ids)
        /\ Strip(obs'.text) # <<>>
        /\ OnBotMessage(obs'.id, obs'.text))
          => (/\ Len(queue') = Len(queue) + 1
              /\ SubSeq(queue', 1, Len(queue)) = queue
              /\ queue'[Len(queue')].text = Strip(obs'.text))]_vars

\* C4 witness: the message just queued has the text of an item queued
\* before it and of the item in process.
C4_Witness ==
    /\ obs.fate = "queued"
    /\ Len(queue) >= 2
    /\ queue[Len(queue)].text = queue[1].text
    /\ cur.pc # "get"
    /\ cur.original = queue[1].text

\* C5: every enqueued item is either still queued or was taken exactly once,
\* alone or in one batch; no serial is queued twice; a round sends at most
\* one voice message.
C5_NoItemLostOrDuplicated ==
    /\ \A n \in 1..Len(hist) :
          hist[n] = IF \E i \in 1..Len(queue) : queue[i].n = n THEN 0 ELSE 1
    /\ \A i, j \in 1..Len(queue) : queue[i].n = queue[j].n => i = j
    /\ \A i, j \in 1..Len(cur.items) : cur.items[i] = cur.items[j] => i = j
    /\ \A i \in 1..Len(cur.items) : cur.items[i] \in 1..Len(hist) /\ hist[cur.items[i]] = 1
    /\ cur.tier \in {"normal", "fast"} => Len(cur.items) = 1
    /\ Len(cur.texts) = Len(cur.items)
    /\ cur.voices <= 1

\* C5 witness: a batch of seven items was delivered as one voice message.
C5_Witness == cur.tier = "batch" /\ Len(cur.items) >= 7 /\ cur.voices = 1

\* C6: on a dequeue the tier is Normal, Fast or Batch according to the depth
\* left after the dequeued item was removed, with thresholds 3 and 6.
C6_TierFromRemainingDepth ==
    [][DequeueStep =>
         LET depth == Len(queue) - 1
         IN  /\ cur'.tier \in {"normal", "fast", "batch"}
             /\ cur'.tier = "normal" <=> depth < 3
             /\ cur'.tier = "fast" <=> (3 <= depth /\ depth < 6)
             /\ cur'.tier = "batch" <=> depth >= 6
             /\ cur'.depth = depth
             /\ queue' = IF depth >= 6 THEN <<>> ELSE Tail(queue)]_vars

\* C6 witness: the fast tier at the depth just below the batch threshold.
C6_Witness == cur.tier = "fast" /\ cur.depth = 5

\* C7 (as stated): with a queue depth of at least 6 before the dequeue of M,
\* batch mode is chosen for M.
C7_BatchFromDepthBeforeDequeue ==
    [][(DequeueStep /\ Len(queue) >= 6) => cur'.tier = "batch"]_vars

\* C7 (amended): with at least 6 items left after M was removed (a depth of
\* at least 7 counting M) batch mode is chosen; at a depth of exactly 6
\* counting M the fast tier is chosen.
C7_BatchFromRemainingDepth ==
    [][DequeueStep =>
         /\ Len(queue) >= 7 => (cur'.tier = "batch" /\ Len(cur'.items) = Len(queue))
         /\ Len(queue) = 6 => (cur'.tier = "fast" /\ Len(cur'.items) = 1)]_vars

\* C7 witness: a batch round started with exactly 6 items behind M.
C7_Witness == cur.tier = "batch" /\ cur.depth = 6 /\ cur.pc # "get"

\* C8 (as stated): a batch takes every queued item, makes exactly one
\* synthesis call, and the synthesized text contains the sanitized texts of
\* the messages joined with single spaces in enqueue order.
C8_BatchJoinsSanitizedTexts ==
    cur.tier = "batch" =>
        /\ Len(cur.items) = cur.depth + 1
        /\ cur.tts_calls = 1
        /\ Contains(cur.tts_arg, JoinSpace(CleanEach(cur.texts)))

\* C8 (amended): a batch takes every queued item in enqueue order and
\* sanitizes once the raw texts joined with single spaces; it makes exactly
\* one synthesis call with that text when it is not empty and none otherwise.
C8_BatchSanitizesJoinedTexts ==
    cur.tier = "batch" =>
        LET cleaned == CleanForSpeech(JoinSpace(cur.texts))
        IN  /\ Len(cur.items) = cur.depth + 1
            /\ \A i \in 1..Len(cur.items) : cur.items[i] = cur.items[1] + i - 1
            /\ cur.original = JoinSpace(cur.texts)
            /\ cur.result = Speech(cleaned)
            /\ cleaned # <<>> => (cur.tts_calls = 1 /\ cur.tts_arg = cleaned)
            /\ cleaned = <<>> => cur.tts_calls = 0
            /\ cur.llm_calls = 0

\* C8 witness: a batch of texts that are not all alike, delivered as one
\* voice message whose synthesized text differs from the join of the
\* separately sanitized texts.
C8_Witness ==
    /\ cur.tier = "batch"
    /\ cur.tts_calls = 1
    /\ cur.voices = 1
    /\ Range(cur.texts) = BatchTexts
    /\ cur.tts_arg # JoinSpace(CleanEach(cur.texts))

\* C9: a fast round makes no remote classification call; its result is the
\* library key of the pattern hit, else speech with the sanitized text.
C9_FastSkipsRemoteCall ==
    cur.tier = "fast" =>
        /\ cur.llm_calls = 0
        /\ cur.pc # "llm"
        /\ cur.result = IF Match(cur.texts[1]) # NoKey
                        THEN Library(Match(cur.texts[1]))
                        ELSE Speech(CleanForSpeech(cur.texts[1]))

\* C9 witness: a fast round on a text without pattern, a model being configured.
C9_Witness == cur.tier = "fast" /\ llm_model /\ cur.result.action = RESULT_TTS

\* C10: a round whose result is a library key with an existing clip sends
\* that clip and calls neither the engine nor the provider.
C10_LibraryHitNoSynthesis ==
    (cur.result.action = RESULT_LIBRARY /\ LibraryHas(lib_files, cur.result.key)) =>
        /\ cur.tts_calls = 0
        /\ cur.provider_calls = 0
        /\ cur.audio = "lib"
        /\ ~cur.is_temp
        /\ cur.bot_sends = 1

\* C10 witness: the clip of ack_done was delivered.
C10_Witness == cur.result = Library("ack_done") /\ cur.voices = 1 /\ cur.audio = "lib"

\* C11 (as stated): a round of the normal tier on a text without pattern,
\* no remote classifier being configured, has a Speech result and invokes
\* the synthesis provider exactly once.
C11_NoModelSynthesizesOnce ==
    (cur.tier = "normal" /\ ~llm_model /\ Match(cur.original) = NoKey) =>
        /\ cur.result.action = RESULT_TTS
        /\ cur.provider_calls = 1

\* C11 (amended): such a round has the result Speech with the sanitized
\* text and makes no remote call; it invokes the engine and the provider
\* exactly once when the sanitized text is not empty, and neither of them
\* when it is empty, the round then ending with the log "No audio".
C11_NoModelSynthesizesOnceUnlessEmpty ==
    (cur.tier = "normal" /\ ~llm_model /\ Match(cur.original) = NoKey) =>
        LET cleaned == CleanForSpeech(cur.original)
        IN  /\ cur.result = Speech(cleaned)
            /\ cur.llm_calls = 0
            /\ cleaned # <<>> =>
                  (cur.tts_calls = 1 /\ cur.provider_calls = 1 /\ cur.tts_arg = cleaned)
            /\ cleaned = <<>> =>
                  (/\ cur.tts_calls = 0
                   /\ cur.provider_calls = 0
                   /\ cur.log = "no_audio"
                   /\ cur.voices = 0)

\* C11 witness: a normal round on "a*b" without classifier was synthesized
\* once and delivered.
C11_Witness ==
    /\ cur.tier = "normal"
    /\ ~llm_model
    /\ cur.original = T_star
    /\ cur.provider_calls = 1
    /\ cur.voices = 1

\* C12: a round whose result is a library key without manifest entry or
\* without file on disk calls the engine once with the sanitized original
\* text, sends no library clip, and the file it sends is temporary and
\* removed at the end of the round.
C12_LibraryMissFallsBackToSynthesis ==
    (/\ cur.result.action = RESULT_LIBRARY
     /\ cur.result.key # BadKey
     /\ cur.result.key \notin (ManifestKeys \cap lib_files)) =>
        /\ cur.tts_calls = 1
        /\ cur.tts_arg = CleanForSpeech(cur.original)
        /\ cur.audio \in {"none", "tmp"}
        /\ cur.audio = "tmp" => cur.is_temp
        /\ (cur.audio = "tmp" /\ cur.pc = "get") => cur.unlinked = "tmp"
        /\ cur.bot_sends > 0 => cur.audio = "tmp"

\* C12 witness: the key ack_started is in the manifest, its clip is not on
\* disk, and the synthesized text was delivered.
C12_Witness ==
    /\ cur.result = Library("ack_started")
    /\ "ack_started" \notin lib_files
    /\ cur.audio = "tmp"
    /\ cur.voices = 1

\* C13: a round calls the preferred transport at most once and the
\* alternate transport at most once and only after the preferred one
\* failed; a voice message is delivered at most once, by one transport;
\* when both fail the round ends with one failure log and the worker is back
\* at queue.get(), running unless stop() was called since.
C13_PreferredThenAlternateOnce ==
    /\ cur.bot_sends <= 1
    /\ cur.user_sends <= 1
    /\ cur.user_sends = 1 => (cur.bot_sends = 1 /\ cur.send_errors = 1)
    /\ cur.pc = "send_user" => (cur.send_errors = 1 /\ cur.voices = 0)
    /\ cur.voices <= 1
    /\ cur.voices = 1 => cur.log \in {"sent_bot", "sent_user"}
    /\ cur.log = "sent_bot" => (cur.user_sends = 0 /\ cur.send_errors = 0)
    /\ cur.log = "sent_user" => (cur.bot_sends = 1 /\ cur.send_errors = 1)
    /\ cur.log = "send_failed" =>
          (/\ cur.bot_sends = 1
           /\ cur.user_sends = 1
           /\ cur.voices = 0
           /\ cur.fail_logs = 1
           /\ cur.pc = "get"
           /\ cur.outcome = "done"
           /\ worker \in {"running", "cancelled"})

\* C13 witness: both transports failed, the worker runs and an item waits.
C13_Witness ==
    /\ cur.log = "send_failed"
    /\ cur.bot_sends = 1
    /\ cur.user_sends = 1
    /\ worker = "running"
    /\ queue # <<>>

\* C14: a temporary file exists while the delivery call is in progress and
\* is unlinked when the round ends, delivered, failed or cancelled; a clip
\* of the library is never unlinked and the library keeps all its clips.
C14_TempRemovedLibraryKept ==
    /\ (cur.audio = "tmp" /\ cur.pc \in {"send_bot", "send_user"}) =>
          (cur.is_temp /\ cur.tmp_live /\ cur.unlinked = "none")
    /\ (cur.audio = "tmp" /\ cur.pc = "get") => (~cur.tmp_live /\ cur.unlinked = "tmp")
    /\ cur.audio = "lib" => (~cur.is_temp /\ cur.unlinked = "none")
    /\ cur.unlinked # "lib"
    /\ lib_files = ClipsOnDisk

\* C14 witness: a temporary file was removed after both transports failed.
C14_Witness ==
    /\ cur.audio = "tmp"
    /\ cur.log = "send_failed"
    /\ cur.unlinked = "tmp"
    /\ ~cur.tmp_live

\* The logs of a round that ended in a failure.
FailureLogs == {"no_audio", "send_failed", "worker_error"}

\* C19: the worker task ends only by stop(); a step in which a round ends
\* with a failure (no result of the remote call, an exception or no audio
\* from synthesis, an exception of the library lookup, both transports
\* failed) leaves the worker running and back at queue.get(), where the
\* next step of the worker is a dequeue.
C19_WorkerSurvivesFailures ==
    /\ [](cur.pc \in {"get", "llm", "tts", "send_bot", "send_user"})
    /\ [][worker' # worker =>
             \/ (worker = "none" /\ worker' = "running")
             \/ (worker = "running" /\ worker' = "cancelled" /\ cur' = Abandon(cur))]_vars
    /\ [][(cur' # cur /\ cur'.log \in FailureLogs) =>
             (/\ worker' = "running"
              /\ cur'.pc = "get"
              /\ cur'.fail_logs = 1
              /\ queue' = queue)]_vars
    /\ [][(cur.pc = "llm" /\ cur'.pc # "llm" /\ worker' = "running") =>
             cur'.result.action \in {RESULT_LIBRARY, RESULT_TTS}]_vars
    /\ [][(cur.log \in FailureLogs /\ cur.pc = "get" /\ cur' # cur) =>
             (DequeueStep /\ cur'.items = <<Head(queue).n>> \o
                 (IF cur'.tier = "batch" THEN SerialsOf(Tail(queue)) ELSE <<>>))]_vars

\* C19 witness: a round ended with "Worker error" after the library lookup
\* raised; the worker runs and an item waits.
C19_Witness ==
    /\ cur.log = "worker_error"
    /\ cur.result = Library(BadKey)
    /\ worker = "running"
    /\ cur.pc = "get"
    /\ queue # <<>>

\* C20: once the worker is cancelled no call is in flight, nothing is taken
\* from the queue, nothing more is sent or logged, and the cancelled round
\* sent and logged nothing; the step of stop() leaves the queue as it is;
\* no item is taken more than once.
C20_StopAbandonsInFlight ==
    /\ [](worker = "cancelled" => cur.pc = "get")
    /\ [](cur.outcome = "abandoned" =>
             (worker = "cancelled" /\ cur.voices = 0 /\ cur.fail_logs = 0))
    /\ [](\A n \in 1..Len(hist) : hist[n] <= 1)
    /\ [][(worker = "running" /\ worker' = "cancelled") =>
             (/\ queue' = queue
              /\ hist' = hist
              /\ cur'.items = cur.items
              /\ cur'.voices = cur.voices
              /\ cur.pc # "get" => cur'.outcome = "abandoned")]_vars
    /\ [][worker = "cancelled" =>
             (/\ worker' = "cancelled"
              /\ cur' = cur
              /\ Len(queue') >= Len(queue)
              /\ SubSeq(queue', 1, Len(queue)) = queue
              /\ SubSeq(hist', 1, Len(hist)) = hist)]_vars

\* C20 witness: the worker was cancelled during a delivery call while
\* items were queued.
C20_Witness ==
    /\ worker = "cancelled"
    /\ cur.outcome = "abandoned"
    /\ cur.bot_sends = 1
    /\ cur.voices = 0
    /\ Len(queue) >= 2

\* C15: a poll that finds the fingerprint in the map takes the mapped id,
\* removes the entry and starts the delete by that id; a poll that does not
\* find it counts one more miss; a routine that claimed an entry did so at
\* one of its 20 polls and never scans; a routine scans only after 20
\* misses, and once; a finished routine did exactly one of the two.
C15_ClaimWithinWaitElseScanOnce ==
    /\ [](\A j \in 1..Len(del_tasks) :
            LET t == del_tasks[j]
            IN  /\ t.polls <= 20
                /\ t.pc = "poll" => (t.claimed = 0 /\ t.scans = 0 /\ t.polls < 20)
                /\ t.claimed # 0 =>
                      (/\ t.polls < 20
                       /\ t.scans = 0
                       /\ t.bot_deletes = 1
                       /\ \A e \in bot_msg_ids : e.mid # t.claimed)
                /\ t.scans <= 1
                /\ t.scans = 1 => (t.claimed = 0 /\ t.polls = 20 /\ t.bot_deletes = 0)
                /\ t.pc = "done" => (t.claimed # 0) # (t.scans = 1))
    /\ [][\A j \in 1..Len(del_tasks) :
            (del_tasks[j].pc = "poll" /\ del_tasks'[j] # del_tasks[j]) =>
                LET key == del_tasks[j].key
                IN  IF \E e \in bot_msg_ids : e.key = key
                    THEN /\ \E e \in bot_msg_ids :
                               e.key = key /\ del_tasks'[j].claimed = e.mid
                         /\ del_tasks'[j].pc = "bot_delete"
                         /\ \A e \in bot_msg_ids' : e.key # key
                    ELSE /\ del_tasks'[j].polls = del_tasks[j].polls + 1
                         /\ del_tasks'[j].claimed = 0
                         /\ bot_msg_ids' = bot_msg_ids]_vars

\* C15 witness: an entry claimed at the last of the 20 polls, the message
\* deleted by the mapped id.
C15_Witness ==
    \E j \in 1..Len(del_tasks) :
        /\ del_tasks[j].polls = 19
        /\ del_tasks[j].claimed = del_tasks[j].msg
        /\ del_tasks[j].log = "deleted_bot"

\* C16: a routine makes at most one delete attempt; after a failed delete
\* by mapped id it is finished without a scan; a failed scan finishes it
\* too; a finished routine takes no further step; every routine has its
\* work item on the queue, and no step of a routine changes the queue or
\* the worker.
C16_FailedDeletionLoggedNotRetried ==
    /\ [](/\ Len(del_tasks) = Len(hist)
          /\ Len(del_tasks) = del_started
          /\ \A j \in 1..Len(del_tasks) :
                LET t == del_tasks[j]
                IN  /\ t.pc \in {"poll", "bot_delete", "scan", "done"}
                    /\ t.bot_deletes + t.scans <= 1
                    /\ t.log = "bot_delete_failed" =>
                          (t.pc = "done" /\ t.bot_deletes = 1 /\ t.scans = 0)
                    /\ t.log = "scan_failed" =>
                          (t.pc = "done" /\ t.scans = 1 /\ t.bot_deletes = 0)
                    /\ \E i \in 1..Len(queue) :
                          queue[i].n = j /\ Fingerprint(queue[i].text) = t.key)
    /\ [][\A j \in 1..Len(del_tasks) :
            del_tasks[j].pc = "done" => del_tasks'[j] = del_tasks[j]]_vars
    /\ [][(del_tasks' # del_tasks /\ Len(del_tasks') = Len(del_tasks)) =>
             (queue' = queue /\ hist' = hist /\ cur' = cur /\ worker' = worker)]_vars

\* C16 witness: the delete by mapped id failed, the routine is finished and
\* the work item of its message is queued.
C16_Witness ==
    \E j \in 1..Len(del_tasks) :
        /\ del_tasks[j].log = "bot_delete_failed"
        /\ del_tasks[j].pc = "done"
        /\ \E i \in 1..Len(queue) : queue[i].n = j

\* C17 (as stated): an entry that the routine of its message did not claim
\* within its 20 polls is abandoned: no routine claims it afterwards.
C17_UnclaimedEntryNeverUsed ==
    \A j \in 1..Len(del_tasks) : ~del_tasks[j].stale

\* C18: the map holds at most one entry per fingerprint; the step that
\* claims an entry finds it in the map and leaves the map without it; no
\* two routines claim the same entry.
C18_EntryClaimedAtMostOnce ==
    /\ [](\A e, f \in bot_msg_ids : e.key = f.key => e = f)
    /\ [](\A j, k \in 1..Len(del_tasks) :
            (j # k /\ del_tasks[j].claimed # 0) =>
                del_tasks[j].claimed # del_tasks[k].claimed)
    /\ [][\A j \in 1..Len(del_tasks) :
            (del_tasks[j].claimed = 0 /\ del_tasks'[j].claimed # 0) =>
                /\ [key |-> del_tasks[j].key, mid |-> del_tasks'[j].claimed] \in bot_msg_ids
                /\ \A e \in bot_msg_ids' : e.key # del_tasks[j].key]_vars

\* C18 witness: two routines with the same fingerprint have each claimed
\* an entry.
C18_Witness ==
    /\ Len(del_tasks) = 2
    /\ del_tasks[1].key = del_tasks[2].key
    /\ del_tasks[1].claimed # 0
    /\ del_tasks[2].claimed # 0
    /\ del_tasks[1].claimed # del_tasks[2].claimed

\* C21: at most one round (an item or a batch) is in the classify, synthesize
\* and deliver stage at a time, and voices go out in dequeue order: the
\* worker takes items only while no round is in flight, what it takes comes
\* after everything taken before, and a voice is only ever delivered for the
\* round in flight, which is the one dequeued last; messages are ingested
\* at every point in between.
C21_OneRoundDeliveredInDequeueOrder ==
    /\ [][DequeueStep =>
            /\ cur.pc = "get"
            /\ \A i \in 1..Len(cur'.items) : \A n \in 1..Len(hist) :
                   hist[n] > 0 => n < cur'.items[i]]_vars
    /\ [][cur'.voices > cur.voices =>
            /\ ~DequeueStep
            /\ cur'.items = cur.items
            /\ cur.pc \in {"send_bot", "send_user"}]_vars
    /\ [](cur.pc # "get" =>
            \A n \in 1..Len(hist) : hist[n] > 0 => n <= cur.items[Len(cur.items)])

\* The second round delivered its voice while a message that arrived during
\* the rounds waits in the queue.
C21_Witness ==
    /\ cur.voices = 1
    /\ cur.items # <<>>
    /\ cur.items[1] >= 2
    /\ queue # <<>>
    /\ obs.fate = "queued"

\* C22: the worker never blocks on an external service: every round that
\* was dequeued eventually ends and the worker is back at queue.get(), even
\* if a service never responds.
C22_EveryRoundEventuallyEnds == [](cur.pc # "get" => <>(cur.pc = "get"))

\* The remote call of a classify call brought no result: none was made, it
\* timed out or raised, or its response parsed to nothing.
NoRemoteResult(c) ==
    \/ c.llm_calls = 0
    \/ c.ev.kind \in {"timeout", "raise"}
    \/ c.ev.kind = "response" /\ ParseLlmResponse(c.ev.raw, c.text) \in {NoResult, Raised}

\* Some intent has a rule that matches the trimmed text.
PatternHit(text) == \E i \in 1..Len(PATTERNS) : RuleSearch(PATTERNS[i], Strip(text))

\* C23: classify follows a fixed order: a blank text gives Speech with the
\* empty text and no further work; else a pattern hit gives Library with the
\* key and no remote call; the remote call is made only on a miss (and then,
\* with a model configured, it is made); with no remote result the answer
\* is Speech with the sanitized original text.
C23_ClassifyOrder ==
    call.fn = "classify" =>
        /\ Strip(call.text) = <<>> =>
              call.pc = "done" /\ call.out = Speech(<<>>) /\ call.llm_calls = 0
        /\ Strip(call.text) # <<>> /\ PatternHit(call.text) =>
              /\ call.pc = "done"
              /\ call.out = Library(Match(call.text))
              /\ call.llm_calls = 0
        /\ call.llm_calls > 0 => Strip(call.text) # <<>> /\ ~PatternHit(call.text)
        /\ Strip(call.text) # <<>> /\ ~PatternHit(call.text) /\ llm_model =>
              call.llm_calls = 1
        /\ call.pc = "done" /\ Strip(call.text) # <<>> /\ ~PatternHit(call.text)
              /\ NoRemoteResult(call) =>
              call.out = Speech(CleanForSpeech(call.text))

\* A marked-up text missed the patterns, the remote call was made and timed
\* out, and the answer is the sanitized text.
C23_Witness ==
    /\ call.fn = "classify"
    /\ call.pc = "done"
    /\ call.text = T_ital
    /\ call.llm_calls = 1
    /\ call.ev.kind = "timeout"
    /\ call.out = Speech(<<"a">>)

\* C24: an exception or a timeout of the remote classification call is
\* swallowed: classify never raises, and it answers Speech with the
\* sanitized original text.
C24_RemoteFailureSwallowed ==
    call.fn = "classify" /\ call.pc = "done" =>
        /\ call.out # Raised
        /\ (\/ call.ev.kind \in {"timeout", "raise"}
            \/ call.ev.kind = "response" /\ ParseLlmResponse(call.ev.raw, call.text) = Raised)
           => call.out = Speech(CleanForSpeech(call.text))

\* The remote call raised and classify answered with the sanitized text.
C24_Witness ==
    /\ call.fn = "classify"
    /\ call.pc = "done"
    /\ call.ev.kind = "raise"
    /\ call.text = T_ital
    /\ call.out = Speech(<<"a">>)

\* C25: parsing the remote response: action library with a key gives
\* Library with that key; action tts gives Speech with the sanitized text
\* field, or with the sanitized original message when there is no text
\* field; a document that does not parse, a missing or unknown action and
\* action library without key give no result; a document wrapped in a fenced
\* code block is parsed like the document itself.
C25_ParseByAction ==
    call.fn = "parse" =>
        LET d == call.raw.doc
        IN  /\ d.kind = "object" /\ d.action = "library" /\ d.key # "absent" =>
                  call.out = Library(d.key)
            /\ d.kind = "object" /\ d.action = "tts" /\ d.text.kind = "string" =>
                  call.out = Speech(CleanForSpeech(d.text.chars))
            /\ d.kind = "object" /\ d.action = "tts" /\ d.text.kind = "absent" =>
                  call.out = Speech(CleanForSpeech(call.original_text))
            /\ (\/ d.kind # "object"
                \/ d.action \notin {"library", "tts"}
                \/ d.action = "library" /\ d.key = "absent") =>
                  call.out = NoResult

\* C26: speech sanitization is idempotent: sanitizing a sanitized text
\* changes nothing.
C26_SanitizeIdempotent ==
    call.fn = "clean" => CleanForSpeech(call.out) = call.out

\* C27: for a text built from emphasis, code spans, fenced code, links and
\* bare URLs the sanitized text holds no double asterisk, no backtick and no
\* "https://"; a link alone is reduced to its label; a text without markup
\* comes back unchanged.
C27_MarkupRemoved ==
    call.fn = "clean" /\ call.text \in MarkupTexts =>
        /\ ~Contains(call.out, <<"*", "*">>)
        /\ ~Contains(call.out, <<BT>>)
        /\ ~Contains(call.out, Https)
        /\ \A w \in Words : call.text = Link(w) => call.out = w
        /\ call.text \in PlainTexts => call.out = call.text

\* C28: match returns the key of the first intent, in declaration order,
\* that has a pattern matching in the trimmed text: when two intents match,
\* the one declared earlier; it returns none for an empty or blank text (and
\* when no intent matches).
C28_FirstMatchWins ==
    call.fn = "match" =>
        LET t == Strip(call.text)
        IN  /\ t = <<>> => call.out = NoKey
            /\ t # <<>> =>
                  \A i \in 1..Len(call.rules) :
                      (/\ RuleSearch(call.rules[i], t)
                       /\ \A j \in 1..(i - 1) : ~RuleSearch(call.rules[j], t))
                      => call.out = call.rules[i].key
            /\ (\A i \in 1..Len(call.rules) : ~RuleSearch(call.rules[i], t)) =>
                  call.out = NoKey

\* "hmm checking" matches ack_thinking at its start and ack_searching
\* inside; the intent declared first of the two is returned.
C28_Witness ==
    /\ call.fn = "match"
    /\ call.text = W_hmm \o <<" ">> \o W_checking
    /\ RuleSearch(call.rules[2], call.text)
    /\ RuleSearch(call.rules[3], call.text)
    /\ call.out = "ack_searching"

\* The rule of the last addition, as the table of a call holds it.
AddedRule(c) == c.table[KeyIndex(c.table, c.added.key)]

\* C29: add_patterns takes effect on the very next match call, with the
\* cache built or not and the key new or existing: that call runs with the
\* rules of PATTERNS, the added literal among them.  It changes the rules
\* of its key only: in PATTERNS and in the cache every other intent keeps
\* its rules and its place, and a new key comes last.
C29_AddPatternsTakesEffect ==
    /\ (call.fn = "match" /\ call.added # NoAddition) =>
          /\ call.rules = call.table
          /\ call.added.lit \in AddedRule(call).alts
          /\ (/\ Strip(call.text) # <<>>
              /\ RuleSearch(AddedRule(call), Strip(call.text))
              /\ \A j \in 1..(KeyIndex(call.table, call.added.key) - 1) :
                     ~RuleSearch(call.table[j], Strip(call.text)))
             => call.out = call.added.key
    /\ call.fn = "add" =>
          /\ \A i \in 1..Len(call.table) :
                 /\ patterns[i].key = call.table[i].key
                 /\ call.table[i].key # call.added.key => patterns[i] = call.table[i]
          /\ Len(patterns) = Len(call.table)
                 + (IF KeyIndex(call.table, call.added.key) = 0 THEN 1 ELSE 0)
          /\ patterns[Len(patterns)].key \in {call.added.key, call.table[Len(call.table)].key}
          /\ \A i \in 1..Len(call.rules) :
                 /\ compiled[i].key = call.rules[i].key
                 /\ call.rules[i].key # call.added.key => compiled[i] = call.rules[i]
          /\ Len(compiled) \in {Len(call.rules), Len(call.rules) + 1}
          /\ Len(compiled) > Len(call.rules) =>
                 /\ compiled[Len(compiled)].key = call.added.key
                 /\ KeyIndex(call.rules, call.added.key) = 0

\* A new key was added to a built cache and the next match call returned it.
C29_Witness ==
    /\ call.fn = "match"
    /\ call.was_built
    /\ call.added.key = "ack_custom"
    /\ call.text = W_custom
    /\ call.out = "ack_custom"

\* C30: load succeeds for a well-formed manifest, clips missing or not (and
\* only for a well-formed one); get(key) returns a path iff the key is in
\* the loaded manifest and its clip is on disk at the time of the lookup: a
\* clip written after load is found, a clip removed after load gives none,
\* and an unknown key gives none.
C30_GetChecksDiskAtLookup ==
    /\ call.fn = "load" => (call.ok <=> call.file = "valid")
    /\ call.fn = "get" =>
          /\ call.out # NoPath <=> (call.key \in call.manifest /\ call.key \in call.files)
          /\ call.out # NoPath => call.out = call.key
          /\ call.key \notin ManifestKeys => call.out = NoPath
          /\ (call.change = "create" /\ call.key \in call.manifest) => call.out = call.key
          /\ call.change = "remove" => call.out = NoPath

\* The manifest was loaded while the clip of ack_started was missing; the
\* clip was written afterwards and the lookup right after that found it.
C30_Witness ==
    /\ call.fn = "get"
    /\ call.key = "ack_started"
    /\ call.manifest = ManifestKeys
    /\ call.change = "create"
    /\ call.out = "ack_started"


\* C31: generate_library visits every entry of the manifest exactly once, in
\* the order of the manifest; an entry whose clip exists is skipped with no
\* synthesis call; a failed entry does not end the run; and when the run is
\* over generated + skipped + failed is the number of entries.
C31_GenerateVisitsEachEntryOnce ==
    /\ \A k \in gen.existed : k \notin Range(gen.tts_calls)
    /\ gen.generated + gen.skipped + gen.failed + (IF gen.pc = "tts" THEN 1 ELSE 0)
          = Len(gen.visits)
    /\ gen.skipped = Cardinality(gen.existed)
    /\ gen.pc = "done" =>
          /\ gen.visits = SelectSeq(ManifestOrder, LAMBDA k : k \in gen.entries)
          /\ gen.generated + gen.skipped + gen.failed = Cardinality(gen.entries)

\* A run over two entries is over: the first failed, the second was generated.
C31_Witness ==
    /\ gen.pc = "done"
    /\ gen.failed = 1
    /\ gen.generated = 1
    /\ gen.tts_calls = ManifestOrder

\* C32: generate answers None for an absent, empty or blank text without
\* calling the provider, and answers None, raising nothing, when the provider
\* is cut off by the timeout or raises.
C32_BlankOrFailedProviderGivesNone ==
    /\ (tts.pc # "idle" /\ TtsBlank(tts.text)) =>
          tts.provider_calls = 0 /\ tts.pc = "done" /\ tts.ret = "none"
    /\ (tts.pc # "idle" /\ Strip(tts.text.chars) = <<>>) => tts.provider_calls = 0
    /\ tts.provider_out \in {"timeout", "raise"} => tts.pc = "done" /\ tts.ret = "none"

\* The provider was called for a text and cut off by the timeout.
C32_Witness ==
    /\ tts.provider_calls = 1
    /\ tts.provider_out = "timeout"
    /\ tts.ret = "none"

\* C33 (as stated): whenever the provider returned a raw file, generate
\* returns a file that is on disk: the transcoded file, the raw one removed,
\* or the raw file when the transcoder failed; never None.
C33_RawFileAlwaysYieldsFile ==
    (tts.pc = "done" /\ tts.provider_out = "path") =>
        /\ tts.ret \in {"raw", "ogg"}
        /\ tts.ret \in tts.files
        /\ tts.ret = "ogg" => "raw" \notin tts.files

\* C38 (as stated): when generate has finished, every temporary file made
\* during the call is removed or is the file returned.
C38_NoTemporaryFileLeft ==
    tts.pc = "done" => tts.files \subseteq (IF tts.ret \in {"raw", "ogg"} THEN {tts.ret} ELSE {})

\* C34: an observed message is appended to the queue, and one deletion task
\* is started for it, exactly when its text is not blank after trimming and
\* its identifier is not in the window; otherwise the queue and the count of
\* deletion tasks stay as they are, and a message without text leaves the
\* window as it is too.
C34_EnqueuedIffTextAndUnseen ==
    [][OnBotMessage(obs'.id, obs'.text) =>
         LET accepted == Strip(obs'.text) # <<>> /\ obs'.id \notin Range(seen_ids)
         IN  /\ accepted =>
                   /\ queue' = Append(queue, [text |-> Strip(obs'.text), n |-> Len(hist) + 1])
                   /\ del_started' = del_started + 1
             /\ ~accepted => queue' = queue /\ del_started' = del_started
             /\ obs'.text = <<>> => seen_ids' = seen_ids]_vars

\* A message without text was observed after one message was queued and its
\* deletion started: the queue, the window and the count are as they were.
C34_Witness ==
    /\ obs.fate = "no_text"
    /\ Len(queue) = 1
    /\ del_started = 1
    /\ Len(seen_ids) = SEEN_MAXLEN - WindowRoom + 1

\* The deletion task of the item with serial n has deleted the message.
Deleted(n) ==
    n <= Len(del_tasks) /\ del_tasks[n].log \in {"deleted_bot", "deleted_user"}

C36_CaptionAtMost1024 ==
    call.fn = "send_voice" =>
        /\ Len(call.bot_caption.chars) <= 1024
        /\ Len(call.user_caption.chars) <= 1024
        /\ call.bot_caption.present <=> call.original # <<>>
        /\ call.bot_caption.present =>
              call.bot_caption.chars = SubSeq(call.original, 1, Len(call.bot_caption.chars))
        /\ Len(call.original) <= 1024 => call.bot_caption.chars = call.original
        /\ call.user_sent => call.user_caption = call.bot_caption
        /\ call.original = <<>> => ~call.user_caption.present

\* A batch of seven texts whose join is longer than 1024 characters went to
\* the fallback transport with a caption of 1024 characters.
C36_Witness ==
    /\ call.fn = "send_voice"
    /\ call.texts = 7
    /\ Len(call.original) > 1024
    /\ call.user_sent
    /\ Len(call.user_caption.chars) = 1024

\* Items the worker has taken from the queue, by get() or get_nowait().
Taken == Cardinality({n \in 1..Len(hist) : hist[n] >= 1})

\* Queue._unfinished_tasks: the puts less the task_done() calls.
Unfinished == Len(hist) - cur.task_done

\* The items of the round the worker is in.
Held == IF cur.pc = "get" THEN 0 ELSE Len(cur.items)

\* C37 (as stated): task_done is called once per item taken and never more
\* often than items were taken, so the unfinished tasks are the queued items
\* plus the items the worker holds.
C37_UnfinishedIsQueuedPlusHeld ==
    /\ cur.task_done <= Taken
    /\ cur.pc = "get" => cur.task_done = Taken
    /\ Unfinished = Len(queue) + Held

\* C37 (amended): task_done is called once per item taken and never more
\* often: for the dequeued item when its round ends, however it ends, and
\* for each item a batch drains at the drain.  So the unfinished tasks are
\* the queued items plus one while a round is in process.
C37_TaskDoneOncePerItemTaken ==
    /\ cur.task_done <= Taken
    /\ cur.pc = "get" => cur.task_done = Taken
    /\ cur.pc # "get" => cur.task_done = Taken - 1
    /\ Unfinished = Len(queue) + (IF cur.pc = "get" THEN 0 ELSE 1)

\* A batch of seven is in process: seven items held, six of them marked
\* done at the drain, one task unfinished.
C37_Witness ==
    /\ cur.tier = "batch"
    /\ cur.pc # "get"
    /\ Held = 7
    /\ cur.task_done = 6
    /\ Unfinished = 1

\* C39 (as stated): once _max_duration_stop has run for a recording that hit
\* the limit, the audio captured up to the limit has been handed on exactly
\* once and the stream that captured it is stopped, whatever toggle() calls
\* came in between.
C39_LimitAudioSentOnceStreamStopped ==
    \A k \in 1..Len(rec.limits) :
        k <= rec.stops =>
            /\ Cardinality({i \in 1..Len(rec.sent) : rec.sent[i] = rec.limits[k].frames}) = 1
            /\ rec.limits[k].stream \notin rec.open

\* C40 (as stated): the files are played one after the other in the order
\* of their download, at most one player process alive at a time; a file
\* the worker took is removed once its attempt is over; and when stop() has
\* returned the worker is cancelled and no player process is running.
C40_SequentialAndStoppedClean ==
    /\ Cardinality(ply.alive) <= 1
    /\ ply.taken = [i \in 1..Len(ply.taken) |-> i]
    /\ \A i \in 1..Len(ply.played) : \A j \in 1..Len(ply.played) :
          i < j => ply.played[i] < ply.played[j]
    /\ \A f \in Range(ply.taken) : (f # ply.path \/ ply.worker = "cancelled") => f \notin ply.files
    /\ ply.stop_pc = "done" => ply.worker = "cancelled" /\ ply.alive = {}
====
